---- MODULE Spec2Model ----
(***************************************************************************)
(* Model of the real-time market-data layer of dr-manhattan:               *)
(*   OrderBookWebSocket        (src/dr_manhattan/base/websocket.py)        *)
(*   PolymarketWebSocket       (src/dr_manhattan/exchanges/polymarket_ws.py)*)
(*   PredictFunWebSocket       (src/dr_manhattan/exchanges/predictfun_ws.py)*)
(*   PredictFunUserWebSocket   (src/dr_manhattan/exchanges/predictfun_ws.py)*)
(*                                                                         *)
(* One connection object lives on one asyncio event loop.  The coroutines  *)
(* running on that loop are the tasks of the model; an action is the code  *)
(* one task runs between two suspension points (await websockets.connect,  *)
(* await ws.send, await ws.close, await asyncio.sleep, async for ... ws).  *)
(***************************************************************************)
EXTENDS Integers, Sequences, FiniteSets, TLC

\* ---------------------------------------------------------------- bounds
\* config['max_reconnect_attempts'] of the modelled connection
MaxAttempts == 2
\* Spec: API calls (connect / disconnect / watch / unwatch / stop) made by callers
MaxCalls == 2
\* Spec: transport faults injected by the peer or the network
MaxFaults == 1
\* SpecRx: watch / unwatch calls made by callers
MaxRxCalls == 2
\* SpecRx: inbound frames delivered to the receive loop
MaxFrames == 1
\* SpecSub: watch / unwatch calls made by callers
MaxSubCalls == 4
\* SpecSub: transport faults injected by the peer or the network
MaxSubFaults == 1
\* SpecRetry: watch calls made by callers
MaxRetryCalls == 2
\* SpecRetry: transport faults injected by the peer or the network
MaxRetryFaults == 2
\* SpecClose: watch / disconnect / stop calls made by callers
MaxCloseCalls == 2
\* SpecClose: inbound frames delivered to the receive loop
MaxCloseFrames == 1
\* SpecUser: start() / stop() / on_event() / on_trade() calls made by callers
MaxUserCalls == 3
\* SpecUser: transport faults injected by the peer or the network
MaxUserFaults == 1
\* SpecUser: inbound frames delivered to the receive loop
MaxUserFrames == 2
\* SpecParse: levels on each side of a full-book message
MaxLevels == 2
\* SpecCache, SpecDelta: the largest timestamp of a message and of the clock
MaxTs == 2
\* SpecCache: messages dispatched to the binary market's callback
MaxCacheFrames == 3
\* SpecDelta: messages dispatched on the public-book venue
MaxDeltaFrames == 2
\* SpecKalshi: calls made on the exchange object
MaxKalshiCalls == 3

Keys == {"k1", "k2"}
Callbacks == {"cb1", "cb2"}
Venues == {"polymarket", "predictfun"}
\* the heartbeat nonces the peer sends
Nonces == {0, 1, 2}

\* the coroutines on the connection's loop: the task made by start(), one
\* caller coroutine, and the disconnect() posted by stop()
Tasks == {"rx", "api", "stp"}

\* config.get('reconnect_delay', 5.0), in seconds
reconnect_delay == 5

\* callbacks registered on the user-event channel
UserCallbacks == {"ucb1", "ucb2"}
\* eventType of a wallet event: two members of WalletEventType and a string
\* that is not one
EventTypes == {"orderAccepted", "orderTransactionSuccess", "unknown"}

VARIABLES
    venue,               \* which subclass of OrderBookWebSocket the object is
    state,               \* self.state
    ws,                  \* self.ws: 0 is None, n > 0 is the n-th transport opened
    auto_reconnect,      \* self.auto_reconnect
    reconnect_attempts,  \* self.reconnect_attempts
    subscriptions,       \* self.subscriptions, a dict in insertion order
    subscribed_assets,   \* PolymarketWebSocket.subscribed_assets
    subscribed_markets,  \* PredictFunWebSocket._subscribed_markets (its keys)
    request_id,          \* PredictFunWebSocket._request_id
    last_heartbeat_ts,   \* PredictFunWebSocket._last_heartbeat_ts
    hb_tasks,            \* heartbeat-response tasks made by ensure_future, not yet run
    transports,          \* status of every transport opened so far
    sent,                \* frames handed to the newest transport, oldest first
    invoked,             \* callback invocations, oldest first
    task,                \* the position and the locals of every coroutine
    hist                 \* history: the calls, faults and frames the environment
                         \* may still make, whether disconnect() has been called
                         \* and by which step the state was reached (ev)

\* PredictFunUserWebSocket, an object of its own with its own loop and thread
VARIABLES
    running,                 \* self._running
    connected,               \* self._connected
    user_ws,                 \* self.ws: 0 is None, n > 0 the n-th transport opened
    user_request_id,         \* self._request_id
    user_last_heartbeat_ts,  \* self._last_heartbeat_ts
    event_callbacks,         \* self._event_callbacks
    trade_callbacks,         \* self._trade_callbacks
    user_transports,         \* status of every transport opened so far
    user_sent,               \* frames handed to the newest transport, oldest first
    user_invoked,            \* callback invocations, oldest first
    user_task,               \* position of _receive_loop and of the caller in stop()
    user_hist                \* history: what the environment may still do, and
                             \* the step that led to the state (ev)

\* The order books: what the venue parsers make of a message, and the cache
\* (OrderbookManager) that watch_orderbook_by_market's callback writes
VARIABLES
    inbox,               \* the decoded message the dispatch path gets next
    cache,               \* OrderbookManager.orderbooks, per token
    handed,              \* what the last message led to: the update given to
                         \* the callback and the books written for each token
    clock,               \* int(time.time() * 1000) at the last reading
    book_hist            \* history: the messages that may still arrive, and
                         \* the message of the last step

bvars == <<inbox, cache, handed, clock, book_hist>>

\* A Kalshi exchange object and the requests it has made
VARIABLES
    kalshi_api_key_id,   \* self._api_key_id: "none" is None, "" the empty string
    kalshi_auth,         \* self._auth is not None
    kalshi_http,         \* how many times _request has been entered
    kalshi_last,         \* the last call: operation, arguments, response, outcome
    kalshi_left          \* history: the calls still to be made

kvars == <<kalshi_api_key_id, kalshi_auth, kalshi_http, kalshi_last, kalshi_left>>

uvars == <<running, connected, user_ws, user_request_id, user_last_heartbeat_ts,
           event_callbacks, trade_callbacks, user_transports, user_sent,
           user_invoked, user_task, user_hist>>

ovars == <<venue, state, ws, auto_reconnect, reconnect_attempts, subscriptions,
           subscribed_assets, subscribed_markets, request_id, last_heartbeat_ts,
           hb_tasks, transports, sent, invoked, task, hist>>

vars == <<ovars, uvars, bvars, kvars>>

\* ------------------------------------------------------------ the object
\* The step that led to a state, as far as the environment chose it: the call
\* a caller began (op, key, cb) or the inbound frame the receive loop read.
NoFrame == [json |-> FALSE, items |-> <<>>]

Event(op, key, cb, frame) == [op |-> op, key |-> key, cb |-> cb, frame |-> frame]

NoEvent == Event("none", "none", "none", NoFrame)

\* The fields of the connection object together with the locals (tk) of the
\* coroutine that is running.
Self(t) ==
    [venue |-> venue, state |-> state, ws |-> ws,
     auto_reconnect |-> auto_reconnect,
     reconnect_attempts |-> reconnect_attempts,
     subscriptions |-> subscriptions,
     subscribed_assets |-> subscribed_assets,
     subscribed_markets |-> subscribed_markets,
     request_id |-> request_id,
     last_heartbeat_ts |-> last_heartbeat_ts,
     hb_tasks |-> hb_tasks,
     transports |-> transports, sent |-> sent, invoked |-> invoked,
     hist |-> [hist EXCEPT !.ev = NoEvent, !.ret = FALSE], tk |-> task[t]]

\* The coroutine t has run up to its next suspension point and left m.
Commit(t, m) ==
    /\ venue' = m.venue
    /\ state' = m.state
    /\ ws' = m.ws
    /\ auto_reconnect' = m.auto_reconnect
    /\ reconnect_attempts' = m.reconnect_attempts
    /\ subscriptions' = m.subscriptions
    /\ subscribed_assets' = m.subscribed_assets
    /\ subscribed_markets' = m.subscribed_markets
    /\ request_id' = m.request_id
    /\ last_heartbeat_ts' = m.last_heartbeat_ts
    /\ hb_tasks' = m.hb_tasks
    /\ transports' = m.transports
    /\ sent' = m.sent
    /\ invoked' = m.invoked
    /\ hist' = m.hist
    /\ task' = [task EXCEPT ![t] = m.tk]
    /\ UNCHANGED <<uvars, bvars, kvars>>

\* Locals of a coroutine that is not running.
IdleTask ==
    [pc |-> "idle", op |-> "none", ctx |-> "none", key |-> "none",
     todo |-> <<>>, after |-> "none", rxws |-> 0, delay |-> 0, res |-> "none",
     exc |-> FALSE]

\* ------------------------------------------------------- the registry
KeysOf(subs) == [i \in 1..Len(subs) |-> subs[i].key]

KeySet(subs) == {subs[i].key : i \in 1..Len(subs)}

\* self.subscriptions[k]
CallbackOf(subs, k) ==
    LET i == CHOOSE j \in 1..Len(subs) : subs[j].key = k IN subs[i].cb

\* mutant of SetSub: the registry is a list that every watch appends to
SetSubAppends(subs, k, cb) == Append(subs, [key |-> k, cb |-> cb])

\* self.subscriptions[k] = cb: a dict keeps the position of a key it holds
SetSub(subs, k, cb) ==
    IF k \in KeySet(subs)
    THEN [i \in 1..Len(subs) |->
            IF subs[i].key = k THEN [key |-> k, cb |-> cb] ELSE subs[i]]
    ELSE Append(subs, [key |-> k, cb |-> cb])

\* del self.subscriptions[k]
DelSub(subs, k) == SelectSeq(subs, LAMBDA e : e.key # k)

\* ------------------------------------------------------- the transport
\* ws.send(frame) raises unless self.ws is a transport that is still open
\* (None has no send; a closed or broken transport raises ConnectionClosed).
CanSend(m) == m.ws # 0 /\ m.transports[m.ws] = "open"

\* A frame handed to the transport self.ws.
Frame(m, method, keys, id) ==
    [method |-> method, keys |-> keys, id |-> id]

\* The same frame with the code path that sent it: "replay" (connect's
\* resubscribe loop), "sub" (watch_orderbook), "unsub" (unwatch_orderbook),
\* "hb" (heartbeat response).
Sent(frame, by) ==
    [method |-> frame.method, keys |-> frame.keys, id |-> frame.id, by |-> by]

\* await self.ws.send(json.dumps(msg)): the frame is written and the
\* coroutine is suspended until the send completes; after says what it then does.
Send(m, frame, after) ==
    LET subscribes == m.hist.rec /\ m.tk.op = "watch" /\ frame.keys = {m.tk.key}
    IN [m EXCEPT !.sent = Append(@, Sent(frame, after)),
                 !.tk.pc = "send", !.tk.after = after,
                 !.hist.caused = IF subscribes THEN @ + 1 ELSE @]

\* An exception leaves the code that was running.
Raised(m) == [m EXCEPT !.tk.pc = "raise"]

\* A caller's call has ended: res is "ok" (returned) or "error" (raised).
ApiReturn(m, res) ==
    [m EXCEPT !.tk = [IdleTask EXCEPT !.res = res]]

\* ----------------------------------------------- venue subscribe frames
\* PolymarketWebSocket._subscribe_orderbook
PolymarketSubscribe(m, k, after) ==
    LET m1 == [m EXCEPT !.subscribed_assets = @ \cup {k}] IN
    IF CanSend(m1)
    THEN Send(m1, Frame(m1, "market", {k}, 0), after)
    ELSE Raised(m1)

\* mutant of NextRequestId: the counter is returned without the increment
NextRequestIdKeeps(m) == m

\* PredictFunWebSocket._next_request_id
NextRequestId(m) == [m EXCEPT !.request_id = @ + 1]

\* PredictFunWebSocket._subscribe_orderbook up to the send; the entry of
\* _subscribed_markets is written when the send has completed (SendDone).
PredictFunSubscribe(m, k, after) ==
    LET m1 == NextRequestId(m) IN
    IF CanSend(m1)
    THEN Send(m1, Frame(m1, "subscribe", {k}, m1.request_id), after)
    ELSE Raised(m1)

\* self._subscribe_orderbook(market_id), dispatched on the subclass
SubscribeOrderbook(m, k, after) ==
    IF m.venue = "polymarket"
    THEN PolymarketSubscribe(m, k, after)
    ELSE PredictFunSubscribe(m, k, after)

\* PolymarketWebSocket._unsubscribe_orderbook
PolymarketUnsubscribe(m, k) ==
    LET m1 == [m EXCEPT !.subscribed_assets = @ \ {k}] IN
    IF CanSend(m1)
    THEN Send(m1, Frame(m1, "market", m1.subscribed_assets, 0), "unsub")
    ELSE Raised(m1)

\* PredictFunWebSocket._unsubscribe_orderbook up to the send
PredictFunUnsubscribe(m, k) ==
    IF k \notin m.subscribed_markets
    THEN ApiReturn(m, "ok")
    ELSE LET m1 == NextRequestId(m) IN
         IF CanSend(m1)
         THEN Send(m1, Frame(m1, "unsubscribe", {k}, m1.request_id), "unsub")
         ELSE Raised(m1)

\* self._unsubscribe_orderbook(market_id), dispatched on the subclass
UnsubscribeOrderbook(m, k) ==
    IF m.venue = "polymarket"
    THEN PolymarketUnsubscribe(m, k)
    ELSE PredictFunUnsubscribe(m, k)

\* ------------------------------------------------------ receive loop
\* delay = self.reconnect_delay * (2 ** (self.reconnect_attempts - 1))
ReconnectDelay(attempts) == reconnect_delay * 2^(attempts - 1)

\* mutant of Reconnect: with the attempts used up it closes and still waits
\* for one more attempt
ReconnectWaitsWhenExhausted(m) ==
    IF m.reconnect_attempts >= MaxAttempts
    THEN [m EXCEPT !.state = "closed", !.tk.pc = "sleep"]
    ELSE [m EXCEPT !.state = "reconnecting",
                   !.reconnect_attempts = @ + 1,
                   !.tk.pc = "sleep"]

\* _reconnect up to await asyncio.sleep(delay); pc "returned" is the early
\* return taken when the attempts are used up.
Reconnect(m) ==
    IF m.reconnect_attempts >= MaxAttempts
    THEN [m EXCEPT !.state = "closed", !.tk.pc = "returned"]
    ELSE LET m1 == [m EXCEPT !.state = "reconnecting",
                             !.reconnect_attempts = @ + 1]
         IN [m1 EXCEPT !.tk.delay = ReconnectDelay(m1.reconnect_attempts),
                       !.tk.pc = "sleep"]

\* _receive_loop has ended (the while condition failed or a break).
LoopExit(m) == [m EXCEPT !.tk.pc = "done"]

\* One pass of `while self.state != CLOSED` up to the next suspension point.
RECURSIVE ReceiveLoopTop(_)
ReceiveLoopTop(m) ==
    IF m.state = "closed" THEN LoopExit(m)
    ELSE IF m.ws = 0 \/ m.state # "connected"
    THEN IF m.auto_reconnect
         THEN LET r == Reconnect(m) IN
              IF r.tk.pc = "sleep" THEN r ELSE ReceiveLoopTop(r)
         ELSE LoopExit(m)
    ELSE [m EXCEPT !.tk.pc = "recv", !.tk.rxws = m.ws]

\* mutant of ReceiveError: the loop reconnects whatever auto_reconnect is
ReceiveErrorAlwaysReconnects(m) ==
    IF m.state # "closed"
    THEN LET r == Reconnect(m) IN
         IF r.tk.pc = "sleep" THEN r ELSE ReceiveLoopTop(r)
    ELSE LoopExit(m)

\* The except branch of _receive_loop: reading from the transport raised.
ReceiveError(m) ==
    IF m.auto_reconnect /\ m.state # "closed"
    THEN LET r == Reconnect(m) IN
         IF r.tk.pc = "sleep" THEN r ELSE ReceiveLoopTop(r)
    ELSE LoopExit(m)

\* ------------------------------------------------------------ connect
\* watch_orderbook after its connect(): await self._subscribe_orderbook(k)
WatchSubscribe(m) ==
    LET r == SubscribeOrderbook(m, m.tk.key, "sub") IN
    IF r.tk.pc = "raise" THEN ApiReturn(r, "error") ELSE r

\* history: a connect() has succeeded (ret, for this step only), no reconnect
\* attempt has failed since
NoteConnected(m) == [m EXCEPT !.hist.failed = 0, !.hist.ret = m.hist.rec]

\* history: one more connect() made by _reconnect has failed in a row
NoteAttemptFailed(m) ==
    IF m.hist.rec THEN [m EXCEPT !.hist.failed = @ + 1] ELSE m

\* history: the connect() made by watch_orderbook(k, cb) has raised
NoteWatchFailed(m) ==
    IF m.hist.rec /\ m.tk.op = "watch"
    THEN [m EXCEPT !.hist.queued = @ \cup {m.tk.key}]
    ELSE m

\* connect() has returned to the code that called it.
ConnectReturn(m) ==
    CASE m.tk.ctx \in {"start", "reconnect"} -> ReceiveLoopTop(NoteConnected(m))
      [] m.tk.ctx = "watch" -> WatchSubscribe(NoteConnected(m))
      [] OTHER -> ApiReturn(NoteConnected(m), "ok")

\* connect() has raised: start()'s coroutine ends with the exception,
\* _reconnect swallows it, a caller gets it.
ConnectRaise(m) ==
    CASE m.tk.ctx = "start" -> [m EXCEPT !.tk.pc = "dead"]
      [] m.tk.ctx = "reconnect" -> ReceiveLoopTop(NoteAttemptFailed(m))
      [] OTHER -> ApiReturn(NoteWatchFailed(m), "error")

\* The except branch of connect().
ConnectFailed(m) == ConnectRaise([m EXCEPT !.state = "disconnected"])

\* mutant of ConnectEntry: connect() does not look at the state
ConnectEntryAlwaysOpens(m, ctx) ==
    [m EXCEPT !.tk.ctx = ctx, !.state = "connecting", !.tk.pc = "open"]

\* history: websockets.connect is called once more by the reconnect
\* procedure since the state was last set to Connected
NoteAttempt(m, ctx) ==
    IF m.hist.rec /\ ctx = "reconnect" THEN [m EXCEPT !.hist.tried = @ + 1] ELSE m

\* connect() up to await websockets.connect(...)
ConnectEntry(m, ctx) ==
    LET m1 == [m EXCEPT !.tk.ctx = ctx] IN
    IF m1.state = "connected"
    THEN ConnectReturn(m1)
    ELSE NoteAttempt([m1 EXCEPT !.state = "connecting", !.tk.pc = "open"], ctx)

\* The replay loop of OrderBookWebSocket.connect: the next
\* _subscribe_orderbook of `for market_id in list(self.subscriptions.keys())`.
ReplayNext(m) ==
    IF m.tk.todo = <<>>
    THEN ConnectReturn(m)
    ELSE LET k == Head(m.tk.todo)
             r == SubscribeOrderbook([m EXCEPT !.tk.todo = Tail(@)], k, "replay")
         IN IF r.tk.pc = "raise" THEN ConnectFailed(r) ELSE r

\* OrderBookWebSocket.connect after the transport is open: the keys to
\* replay are the registry's keys at this moment.
BaseConnected(m) ==
    ReplayNext([m EXCEPT !.tk.todo = KeysOf(m.subscriptions)])

\* PredictFunWebSocket.connect after the transport is open: it only calls
\* _authenticate and returns.
PredictFunConnected(m) == ConnectReturn(m)

\* mutant of ConnectOpened: the attempt counter is not reset
ConnectOpenedKeepsCount(m) ==
    LET n == Len(m.transports) + 1
        m1 == [m EXCEPT !.transports = Append(@, "open"),
                        !.sent = <<>>,
                        !.ws = n,
                        !.state = "connected"]
    IN IF m.venue = "polymarket" THEN BaseConnected(m1) ELSE PredictFunConnected(m1)

\* websockets.connect returned a transport: a new connection, nothing sent on it.
ConnectOpened(m) ==
    LET n == Len(m.transports) + 1
        m1 == [m EXCEPT !.transports = Append(@, "open"),
                        !.sent = <<>>,
                        !.ws = n,
                        !.state = "connected",
                        !.reconnect_attempts = 0,
                        !.hist.tried = 0]
    IN IF m.venue = "polymarket" THEN BaseConnected(m1) ELSE PredictFunConnected(m1)

\* ---------------------------------------------------------- disconnect
\* mutant of DisconnectEntry: disconnect() also clears the registry
DisconnectEntryClears(m) ==
    LET m1 == [m EXCEPT !.state = "closed", !.auto_reconnect = FALSE,
                        !.subscriptions = <<>>]
    IN IF m1.ws # 0
       THEN [m1 EXCEPT !.transports[m1.ws] =
                           IF @ = "open" THEN "closed" ELSE @,
                       !.tk.pc = "close"]
       ELSE ApiReturn(m1, "ok")

\* disconnect() up to await self.ws.close(); self.tasks is always empty,
\* so the loop over it cancels nothing.
DisconnectEntry(m) ==
    LET m1 == [m EXCEPT !.state = "closed", !.auto_reconnect = FALSE]
    IN IF m1.ws # 0
       THEN [m1 EXCEPT !.transports[m1.ws] =
                           IF @ = "open" THEN "closed" ELSE @,
                       !.tk.pc = "close"]
       ELSE ApiReturn(m1, "ok")

\* disconnect() after ws.close() has completed: self.ws = None
DisconnectClosed(m) == ApiReturn([m EXCEPT !.ws = 0], "ok")

\* ------------------------------------------------- watch and unwatch
\* watch_orderbook(market_id, callback)
WatchOrderbook(m, k, cb) ==
    LET m1 == [m EXCEPT !.subscriptions = SetSub(@, k, cb)] IN
    IF m1.state # "connected"
    THEN ConnectEntry(m1, "watch")
    ELSE WatchSubscribe(m1)

\* mutant of UnwatchOrderbook: the entry is not deleted from the registry
UnwatchOrderbookKeepsEntry(m, k) ==
    IF k \notin KeySet(m.subscriptions)
    THEN ApiReturn(m, "ok")
    ELSE IF m.state = "connected"
    THEN LET r == UnsubscribeOrderbook(m, k) IN
         IF r.tk.pc = "raise" THEN ApiReturn(r, "error") ELSE r
    ELSE ApiReturn(m, "ok")

\* mutant of UnwatchOrderbook: no early return for a key that is not registered
UnwatchOrderbookNoGuard(m, k) ==
    LET m1 == [m EXCEPT !.subscriptions = DelSub(@, k)] IN
    IF m1.state = "connected"
    THEN LET r == UnsubscribeOrderbook(m1, k) IN
         IF r.tk.pc = "raise" THEN ApiReturn(r, "error") ELSE r
    ELSE ApiReturn(m1, "ok")

\* unwatch_orderbook(market_id)
UnwatchOrderbook(m, k) ==
    IF k \notin KeySet(m.subscriptions)
    THEN ApiReturn(m, "ok")
    ELSE LET m1 == [m EXCEPT !.subscriptions = DelSub(@, k)] IN
         IF m1.state = "connected"
         THEN LET r == UnsubscribeOrderbook(m1, k) IN
              IF r.tk.pc = "raise" THEN ApiReturn(r, "error") ELSE r
         ELSE ApiReturn(m1, "ok")

\* A send has completed: the code after `await self.ws.send(...)`.
SendDone(m) ==
    CASE m.tk.after = "replay" -> ReplayNext(m)
      [] m.tk.after = "sub" ->
            ApiReturn(IF m.venue = "predictfun"
                      THEN [m EXCEPT !.subscribed_markets = @ \cup {m.tk.key}]
                      ELSE m, "ok")
      [] OTHER ->
            ApiReturn(IF m.venue = "predictfun"
                      THEN [m EXCEPT !.subscribed_markets = @ \ {m.tk.key}]
                      ELSE m, "ok")

\* ------------------------------------------------------ inbound frames
\* One decoded JSON value of an inbound frame.
\*   "book"    an orderbook message with its levels
\*   "bare"    an orderbook message without bids, asks and timestamp
\*   "hb"      {"type":"M","topic":"heartbeat","data":n}
\*   "resp"    {"type":"R",...}
\*   "other"   a JSON object with no type / event_type field
\*   "nondict" a JSON value that is not an object
\* asset is the message's asset_id, market its market (Polymarket) or the id
\* in its topic (Predict.fun); "" is an absent field.
Item(kind, asset, market, n) ==
    [kind |-> kind, asset |-> asset, market |-> market, n |-> n]

BookItems ==
    {Item("book", a, mk, 0) : a \in Keys \cup {""}, mk \in Keys \cup {""}}
        \cup {Item("bare", k, k, 0) : k \in Keys}

ControlItems ==
    {Item("hb", "", "", n) : n \in Nonces}
        \cup {Item(kd, "", "", 0) : kd \in {"resp", "other", "nondict"}}

Items == BookItems \cup ControlItems

\* the items used to build array frames
ArrayItems ==
    {Item("hb", "", "", n) : n \in Nonces \ {0}}
        \cup {Item("book", "k1", "k1", 0), Item("nondict", "", "", 0)}

\* An inbound text frame: text that json.loads rejects, one JSON value, or a
\* JSON array of values.
InboundFrames ==
    {NoFrame}
        \cup {[json |-> TRUE, items |-> <<i>>] : i \in Items}
        \cup {[json |-> TRUE, items |-> <<i, j>>] : i \in ArrayItems, j \in ArrayItems}

None == [market_id |-> "", asset_id |-> "", bare |-> FALSE, none |-> TRUE]

Update(market_id, asset_id, bare) ==
    [market_id |-> market_id, asset_id |-> asset_id, bare |-> bare, none |-> FALSE]

\* PolymarketWebSocket._parse_orderbook_message and _parse_book_message:
\* market_id is message.get("market", asset_id); missing bids and asks
\* default to [] and the message is still an update.
PolymarketParse(item) ==
    IF item.kind \in {"book", "bare"}
    THEN Update(IF item.market = "" THEN item.asset ELSE item.market,
                item.asset, item.kind = "bare")
    ELSE None

\* PredictFunWebSocket._parse_orderbook_message and _parse_orderbook_data as
\* far as the returned value goes (the heartbeat branch returns None).
PredictFunParse(item) ==
    IF item.kind \in {"book", "bare"}
    THEN Update(item.market, "", item.kind = "bare")
    ELSE None

\* The heartbeat branch of PredictFunWebSocket._parse_orderbook_message:
\* the nonce is stored and a response task is made with ensure_future.
PredictFunHeartbeat(m, item) ==
    [m EXCEPT !.last_heartbeat_ts = item.n, !.hb_tasks = @ + 1]

\* the callbacks that raise an exception each time they are called
RaisingCallbacks == {"cb2"}

\* callback(key, orderbook); tk.exc is the exception it raised, in flight
\* until an except branch takes it
Invoke(m, key, u) ==
    LET cb == CallbackOf(m.subscriptions, key) IN
    [m EXCEPT !.invoked = Append(@, [cb |-> cb, key |-> key, bare |-> u.bare]),
              !.tk.exc = cb \in RaisingCallbacks]

\* OrderBookWebSocket._process_message_item after the parse
BaseDispatch(m, u) ==
    IF u.none THEN m
    ELSE IF u.market_id \in KeySet(m.subscriptions)
    THEN Invoke(m, u.market_id, u)
    ELSE m

\* mutant of PolymarketDispatch: the market id is looked up before the asset id
PolymarketDispatchMarketFirst(m, u) ==
    IF u.none THEN m
    ELSE IF u.market_id # "" /\ u.market_id \in KeySet(m.subscriptions)
    THEN Invoke(m, u.market_id, u)
    ELSE IF u.asset_id # "" /\ u.asset_id \in KeySet(m.subscriptions)
    THEN Invoke(m, u.asset_id, u)
    ELSE m

\* PolymarketWebSocket._process_message_item after the parse
PolymarketDispatch(m, u) ==
    IF u.none THEN m
    ELSE IF u.asset_id # "" /\ u.asset_id \in KeySet(m.subscriptions)
    THEN Invoke(m, u.asset_id, u)
    ELSE IF u.market_id # "" /\ u.market_id \in KeySet(m.subscriptions)
    THEN Invoke(m, u.market_id, u)
    ELSE m

\* the try block of _process_message_item: the parse and the dispatch; a
\* value that is not an object makes message.get raise before any dispatch
ParseAndDispatch(m, item) ==
    IF item.kind = "nondict" THEN m
    ELSE IF m.venue = "polymarket"
    THEN PolymarketDispatch(m, PolymarketParse(item))
    ELSE IF item.kind = "hb"
    THEN PredictFunHeartbeat(m, item)
    ELSE BaseDispatch(m, PredictFunParse(item))

\* mutant of ProcessMessageItem: no except branch around the dispatch
ProcessMessageItemUncaught(m, item) == ParseAndDispatch(m, item)

\* _process_message_item: the except branch takes whatever the parse or the
\* callback raised.
ProcessMessageItem(m, item) ==
    [ParseAndDispatch(m, item) EXCEPT !.tk.exc = FALSE]

\* the for loop of _handle_message: every item of an array in turn, left
\* when an exception is in flight
RECURSIVE ProcessItems(_, _)
ProcessItems(m, items) ==
    IF items = <<>> \/ m.tk.exc THEN m
    ELSE ProcessItems(ProcessMessageItem(m, Head(items)), Tail(items))

\* _handle_message: json.loads, then the items; its except branches take a
\* JSONDecodeError and any other exception
HandleMessage(m, frame) ==
    IF ~frame.json THEN m
    ELSE [ProcessItems(m, frame.items) EXCEPT !.tk.exc = FALSE]

\* PredictFunWebSocket._send_heartbeat_response, run as its own task
SendHeartbeatResponse(m) ==
    IF m.ws = 0 \/ m.state # "connected" \/ m.last_heartbeat_ts = 0
    THEN m
    ELSE IF CanSend(m)
    THEN [m EXCEPT !.sent =
            Append(@, Sent(Frame(m, "heartbeat", {}, m.last_heartbeat_ts), "hb"))]
    ELSE m

\* ------------------------------------------- PredictFunUserWebSocket
\* One inbound frame of the user-event channel.
\*   "text"    "PING", "PONG" or the empty message
\*   "nojson"  a text that is not JSON
\*   "nondict" JSON that is not an object
\*   "hb"      {"type":"M","topic":"heartbeat","data":n}
\*   "wallet"  {"type":"M","topic":"predictWalletEvents/..","data":{eventType,..}}
\*             trade: whether its order fields convert to a Trade
\*   "other"   any other JSON object
UserFrame(kind, n, etype, trade) ==
    [kind |-> kind, n |-> n, etype |-> etype, trade |-> trade]

NoUserFrame == UserFrame("none", 0, "unknown", FALSE)

UserFrames ==
    {UserFrame(k, 0, "unknown", FALSE) : k \in {"text", "nojson", "nondict", "other"}}
    \cup {UserFrame("hb", n, "unknown", FALSE) : n \in Nonces}
    \cup {UserFrame("wallet", 0, e, TRUE) : e \in EventTypes}
    \cup {UserFrame("wallet", 0, "orderTransactionSuccess", FALSE)}

UserEvent(op, cb, frame) == [op |-> op, cb |-> cb, frame |-> frame]

NoUserEvent == UserEvent("none", "none", NoUserFrame)

\* The fields of the user-event channel with the locals (tk) of its loop and
\* of the thread that calls stop().
UserSelf ==
    [running |-> running, connected |-> connected, ws |-> user_ws,
     request_id |-> user_request_id,
     last_heartbeat_ts |-> user_last_heartbeat_ts,
     event_callbacks |-> event_callbacks, trade_callbacks |-> trade_callbacks,
     transports |-> user_transports, sent |-> user_sent,
     invoked |-> user_invoked, tk |-> user_task,
     hist |-> [user_hist EXCEPT !.ev = NoUserEvent]]

UserCommit(u) ==
    /\ running' = u.running
    /\ connected' = u.connected
    /\ user_ws' = u.ws
    /\ user_request_id' = u.request_id
    /\ user_last_heartbeat_ts' = u.last_heartbeat_ts
    /\ event_callbacks' = u.event_callbacks
    /\ trade_callbacks' = u.trade_callbacks
    /\ user_transports' = u.transports
    /\ user_sent' = u.sent
    /\ user_invoked' = u.invoked
    /\ user_task' = u.tk
    /\ user_hist' = u.hist
    /\ UNCHANGED <<ovars, bvars, kvars>>

\* `while self._running:` of _receive_loop, up to its next suspension point:
\* await self._connect() when not connected, else `async for ... in self.ws`
UserLoopTop(u) ==
    IF ~u.running THEN [u EXCEPT !.tk.loop = "done"]
    ELSE IF ~u.connected THEN [u EXCEPT !.tk.loop = "open"]
    ELSE [u EXCEPT !.tk.loop = "recv", !.tk.rxws = u.ws]

\* the two except clauses of _receive_loop
UserLoopError(u) ==
    LET u1 == [u EXCEPT !.connected = FALSE] IN
    IF u1.running THEN [u1 EXCEPT !.tk.loop = "sleep"] ELSE UserLoopTop(u1)

UserCanSend(u) == u.ws # 0 /\ u.transports[u.ws] = "open"

\* await self.ws.send(json.dumps(msg))
UserSend(u, frame, by) ==
    [u EXCEPT !.sent = Append(@, Sent(frame, by)), !.tk.loop = "send"]

\* self._next_request_id()
UserNextRequestId(u) == [u EXCEPT !.request_id = @ + 1]

\* _connect() after websockets.connect has returned a transport
UserConnected(u) ==
    LET n  == Len(u.transports) + 1
        u1 == [u EXCEPT !.transports = Append(@, "open"), !.ws = n,
                        !.sent = <<>>, !.connected = TRUE]
        u2 == UserNextRequestId(u1)
    IN IF UserCanSend(u2)
       THEN UserSend(u2, [method |-> "subscribe", keys |-> {"predictWalletEvents"},
                          id |-> u2.request_id], "sub")
       ELSE UserLoopError(u2)

\* _send_heartbeat_response(): an exception of send is logged and dropped
UserSendHeartbeatResponse(u) ==
    IF u.ws = 0 \/ ~u.connected \/ u.last_heartbeat_ts = 0
    THEN UserLoopTop(u)
    ELSE IF UserCanSend(u)
    THEN UserSend(u, [method |-> "heartbeat", keys |-> {},
                      id |-> u.last_heartbeat_ts], "hb")
    ELSE UserLoopTop(u)

\* the calls `for cb in cbs: cb(x)` makes; an exception of cb is logged and dropped
UserInvokeAll(inv, cbs, what) ==
    inv \o [i \in 1..Len(cbs) |-> [cb |-> cbs[i], what |-> what]]

\* _process_wallet_event(data); _parse_trade returns None when a field of the
\* order does not convert
UserProcessWalletEvent(u, f) ==
    IF f.etype = "unknown" THEN u
    ELSE LET u1 == [u EXCEPT !.invoked = UserInvokeAll(@, u.event_callbacks, "event")]
         IN IF f.etype = "orderTransactionSuccess" /\ f.trade
            THEN [u1 EXCEPT !.invoked = UserInvokeAll(@, u.trade_callbacks, "trade")]
            ELSE u1

\* one message of `async for message in self.ws`, with _handle_message
UserHandleMessage(u, f) ==
    CASE f.kind \in {"text", "nojson", "other"} -> UserLoopTop(u)
      [] f.kind = "nondict" -> UserLoopError(u)
      [] f.kind = "hb" ->
            UserSendHeartbeatResponse([u EXCEPT !.last_heartbeat_ts = f.n])
      [] OTHER -> UserLoopTop(UserProcessWalletEvent(u, f))

\* halt: stop() has posted loop.stop() and the event loop has not run it yet
UserIdleTask ==
    [loop |-> "idle", rxws |-> 0, stop |-> "idle", stopws |-> 0, halt |-> FALSE]

UserBudget(calls, faults, frames) ==
    [calls |-> calls, faults |-> faults, frames |-> frames, ev |-> NoUserEvent]

InitUserObject ==
    /\ running = FALSE
    /\ connected = FALSE
    /\ user_ws = 0
    /\ user_request_id = 0
    /\ user_last_heartbeat_ts = 0
    /\ event_callbacks = <<>>
    /\ trade_callbacks = <<>>
    /\ user_transports = <<>>
    /\ user_sent = <<>>
    /\ user_invoked = <<>>
    /\ user_task = UserIdleTask

\* The fields of an object that a scenario does not construct.
NotConstructed == <<>>

\* a scenario without a user-event channel
InitUserIdle ==
    /\ running = NotConstructed
    /\ connected = NotConstructed
    /\ user_ws = NotConstructed
    /\ user_request_id = NotConstructed
    /\ user_last_heartbeat_ts = NotConstructed
    /\ event_callbacks = NotConstructed
    /\ trade_callbacks = NotConstructed
    /\ user_transports = NotConstructed
    /\ user_sent = NotConstructed
    /\ user_invoked = NotConstructed
    /\ user_task = NotConstructed
    /\ user_hist = NotConstructed

\* -------------------------------------------------------- order books
\* Prices are in units of 0.00001 and sizes in whole units: One is the price 1.
One == 100000

\* One element of a "bids" or "asks" array as the venue sent it: a JSON object
\* {"price": .., "size": ..} ("dict") or an array [price, size] ("list"); num
\* is FALSE when float() rejects its price or its size.
RawLevel(form, num, price, size) ==
    [form |-> form, num |-> num, price |-> price, size |-> size]

\* the levels full-book messages are built from: two plain ones, a price of
\* zero, a size of zero, a price above 1, a price finer than four decimals, a
\* value that is no number, and a level in array form
RawLevels ==
    {RawLevel("dict", TRUE, 52000, 100),
     RawLevel("dict", TRUE, 55000, 50),
     RawLevel("dict", TRUE, 0, 100),
     RawLevel("dict", TRUE, 48000, 0),
     RawLevel("dict", TRUE, 120000, 50),
     RawLevel("dict", TRUE, 12343, 100),
     RawLevel("dict", FALSE, 0, 0),
     RawLevel("list", TRUE, 52000, 100)}

\* the levels of the messages that arrive one after another at the cache
BidLevels == {RawLevel("dict", TRUE, 52000, 100), RawLevel("dict", TRUE, 50000, 50)}
AskLevels == {RawLevel("dict", TRUE, 55000, 50), RawLevel("dict", TRUE, 58000, 100)}

SeqsUpTo(S, n) == UNION {[1..k -> S] : k \in 0..n}

\* A decoded message: "pf" is {"type":"M","topic":"predictOrderbook/<id>",
\* "data":{bids, asks, timestamp}}, "book" and "price_change" are the
\* event_type of a Polymarket message; ts = 0 is a message without timestamp.
\* A price_change has its best_bid in bids and its best_ask in asks (at most
\* one element each, whose size is not part of the message).
Message(kind, bids, asks, ts) ==
    [kind |-> kind, bids |-> bids, asks |-> asks, ts |-> ts]

NoMessage == Message("none", <<>>, <<>>, 0)

\* m is a full book of up to MaxLevels levels a side, in any order, or a
\* price change with any best_bid and best_ask
IsParseMessage(m) ==
    \E ts \in {0, 1} :
        \/ \E kd \in {"pf", "book"},
              b \in SeqsUpTo(RawLevels, MaxLevels), a \in SeqsUpTo(RawLevels, MaxLevels) :
              m = Message(kd, b, a, ts)
        \/ \E b \in SeqsUpTo(RawLevels, 1), a \in SeqsUpTo(RawLevels, 1) :
              m = Message("price_change", b, a, ts)

\* well-formed books and price changes with every timestamp up to MaxTs
CacheMessages ==
    {Message(kd, b, a, ts) :
        kd \in {"pf", "book"},
        b \in {s \in SeqsUpTo(BidLevels, 2) : Len(s) < 2 \/ s[1].price > s[2].price},
        a \in {s \in SeqsUpTo(AskLevels, 2) : Len(s) < 2 \/ s[1].price < s[2].price},
        ts \in 0..MaxTs}
      \cup {Message("price_change", b, a, ts) :
               b \in SeqsUpTo(BidLevels, 1), a \in SeqsUpTo(AskLevels, 1),
               ts \in 0..MaxTs}

\* list.sort() of (price, size) tuples: by price, then by size
LevelLess(x, y) == x[1] < y[1] \/ (x[1] = y[1] /\ x[2] < y[2])

RECURSIVE Insert(_, _)
Insert(l, s) ==
    IF s = <<>> THEN <<l>>
    ELSE IF LevelLess(Head(s), l) THEN <<Head(s)>> \o Insert(l, Tail(s))
    ELSE <<l>> \o s

RECURSIVE SortAsc(_)
SortAsc(s) == IF s = <<>> THEN <<>> ELSE Insert(Head(s), SortAsc(Tail(s)))

Reverse(s) == [i \in 1..Len(s) |-> s[Len(s) + 1 - i]]

\* list.sort(reverse=True)
SortDesc(s) == Reverse(SortAsc(s))

\* An orderbook dict as the parsers return it; delta marks the dict of a
\* price_change, which carries "side", "price" and "size" besides.
Book(bids, asks, ts, delta) ==
    [some |-> TRUE, bids |-> bids, asks |-> asks, ts |-> ts, delta |-> delta]

NoBook == [some |-> FALSE, bids |-> <<>>, asks |-> <<>>, ts |-> 0, delta |-> FALSE]

\* The loops of PredictFunWebSocket._parse_orderbook_data: a value float()
\* rejects is skipped, a level is kept when its price is positive.
RECURSIVE PredictFunLevels(_)
PredictFunLevels(raw) ==
    IF raw = <<>> THEN <<>>
    ELSE LET l == Head(raw)
             rest == PredictFunLevels(Tail(raw))
         IN IF l.num /\ l.price > 0 THEN <<<<l.price, l.size>>>> \o rest ELSE rest

\* PredictFunWebSocket._parse_orderbook_data; a message without timestamp is
\* stamped int(time.time() * 1000)
PredictFunParseOrderbookData(msg, now) ==
    Book(SortDesc(PredictFunLevels(msg.bids)), SortAsc(PredictFunLevels(msg.asks)),
         IF msg.ts = 0 THEN now ELSE msg.ts, FALSE)

\* The loops of PolymarketWebSocket._parse_book_message: a level is kept
\* when its price and its size are positive.
RECURSIVE PolymarketLevels(_)
PolymarketLevels(raw) ==
    IF raw = <<>> THEN <<>>
    ELSE LET l == Head(raw)
             rest == PolymarketLevels(Tail(raw))
         IN IF l.num /\ l.price > 0 /\ l.size > 0
            THEN <<<<l.price, l.size>>>> \o rest ELSE rest

\* bid.get(...) on a level in array form raises AttributeError, which the
\* parser does not catch
HasListLevel(raw) == \E i \in 1..Len(raw) : raw[i].form = "list"

\* PolymarketWebSocket._parse_book_message as _process_message_item sees it:
\* an exception of the parser is swallowed there and nothing is dispatched.
PolymarketParseBookMessage(msg) ==
    IF HasListLevel(msg.bids) \/ HasListLevel(msg.asks)
    THEN NoBook
    ELSE Book(SortDesc(PolymarketLevels(msg.bids)), SortAsc(PolymarketLevels(msg.asks)),
              msg.ts, FALSE)

\* PolymarketWebSocket._parse_price_change_message: one try block around
\* both floats, so a best_bid that is no number also leaves the asks empty;
\* the size of either level is the placeholder 0.0.
PolymarketParsePriceChangeMessage(msg) ==
    LET best(side) == IF side # <<>> /\ side[1].num /\ side[1].price > 0
                      THEN <<<<side[1].price, 0>>>> ELSE <<>>
        bid_raises == msg.bids # <<>> /\ ~msg.bids[1].num
    IN Book(best(msg.bids), IF bid_raises THEN <<>> ELSE best(msg.asks), msg.ts, TRUE)

\* mutant of PolymarketParseOrderbookMessage: a price_change is parsed as a book
PolymarketParseEverythingAsBook(msg) ==
    IF msg.kind \in {"book", "price_change"} THEN PolymarketParseBookMessage(msg)
    ELSE NoBook

\* PolymarketWebSocket._parse_orderbook_message
PolymarketParseOrderbookMessage(msg) ==
    IF msg.kind = "book" THEN PolymarketParseBookMessage(msg)
    ELSE IF msg.kind = "price_change" THEN PolymarketParsePriceChangeMessage(msg)
    ELSE NoBook

\* round(x, 4) of a price (no input has a fifth decimal of exactly 5)
Round4(x) ==
    IF x >= 0 THEN ((x + 5) \div 10) * 10 ELSE 0 - (((5 - x) \div 10) * 10)

\* [(round(1 - p, 4), s) for p, s in levels]
Invert(levels) ==
    [i \in 1..Len(levels) |-> <<Round4(One - levels[i][1]), levels[i][2]>>]

\* the tokens of the cache: the YES and the NO token of the binary market
\* watched on Predict.fun, and the asset watched on Polymarket
Tokens == {"yes", "no", "tok"}

EmptyCache == [a \in Tokens |-> NoBook]

\* One side of a book after a delta is merged into it: every price the delta
\* names is replaced, a size of zero removes it.
RECURSIVE MergeSide(_, _)
MergeSide(levels, delta) ==
    IF delta = <<>> THEN levels
    ELSE LET d == Head(delta)
             kept == SelectSeq(levels, LAMBDA l : l[1] # d[1])
         IN MergeSide(IF d[2] > 0 THEN kept \o <<d>> ELSE kept, Tail(delta))

\* OrderbookManager.update(asset_id, incoming): an update older than the
\* stored one is discarded; a snapshot replaces the entry, a delta is merged
\* into it.
CacheUpdate(c, asset, incoming) ==
    IF c[asset].some /\ incoming.ts < c[asset].ts
    THEN [cache |-> c, ret |-> "stale"]
    ELSE [cache |-> [c EXCEPT ![asset] =
                        IF incoming.delta
                        THEN Book(SortDesc(MergeSide(@.bids, incoming.bids)),
                                  SortAsc(MergeSide(@.asks, incoming.asks)),
                                  incoming.ts, FALSE)
                        ELSE incoming],
          ret |-> "ok"]

\* What a message led to: the dict given to the caller's callback, the books
\* handed to the cache per token and what update() returned for each.
Handed(cb, books, rets) == [cb |-> cb, books |-> books, rets |-> rets]

NoHanded == Handed(NoBook, EmptyCache, [a \in Tokens |-> "none"])

\* mutant of OnUpdate: the sides are not swapped for the NO book
OnUpdateKeepsSides(c, ob) ==
    LET yes_ob == Book(ob.bids, ob.asks, ob.ts, FALSE)
        y == CacheUpdate(c, "yes", yes_ob)
        no_ob == Book(SortDesc(Invert(ob.bids)), SortAsc(Invert(ob.asks)), ob.ts, FALSE)
        n == CacheUpdate(y.cache, "no", no_ob)
    IN [cache |-> n.cache,
        handed |-> Handed(ob, [EmptyCache EXCEPT !["yes"] = yes_ob, !["no"] = no_ob],
                          [a \in Tokens |-> IF a = "yes" THEN y.ret
                                            ELSE IF a = "no" THEN n.ret ELSE "none"])]

\* mutant of OnUpdate: the NO book is stored in orderbooks directly
OnUpdateStoresNoDirectly(c, ob) ==
    LET yes_ob == Book(ob.bids, ob.asks, ob.ts, FALSE)
        y == CacheUpdate(c, "yes", yes_ob)
        no_ob == Book(SortDesc(Invert(ob.asks)), SortAsc(Invert(ob.bids)), ob.ts, FALSE)
    IN [cache |-> [y.cache EXCEPT !["no"] = no_ob],
        handed |-> Handed(ob, [EmptyCache EXCEPT !["yes"] = yes_ob, !["no"] = no_ob],
                          [a \in Tokens |-> IF a = "yes" THEN y.ret
                                            ELSE IF a = "no" THEN "ok" ELSE "none"])]

\* on_update of PredictFunWebSocket.watch_orderbook_by_market for a market
\* with two tokens: the book is written for the YES token, its inversion for
\* the NO token, then the caller's callback gets the book.
OnUpdate(c, ob) ==
    LET yes_ob == Book(ob.bids, ob.asks, ob.ts, FALSE)
        y == CacheUpdate(c, "yes", yes_ob)
        no_ob == Book(SortDesc(Invert(ob.asks)), SortAsc(Invert(ob.bids)), ob.ts, FALSE)
        n == CacheUpdate(y.cache, "no", no_ob)
    IN [cache |-> n.cache,
        handed |-> Handed(ob, [EmptyCache EXCEPT !["yes"] = yes_ob, !["no"] = no_ob],
                          [a \in Tokens |-> IF a = "yes" THEN y.ret
                                            ELSE IF a = "no" THEN n.ret ELSE "none"])]

\* The dispatch path of the public-book venue: the update goes to the cache
\* and then to the callback.
PolymarketOnUpdate(c, ob) ==
    LET r == CacheUpdate(c, "tok", ob)
    IN [cache |-> r.cache,
        handed |-> Handed(ob, [EmptyCache EXCEPT !["tok"] = ob],
                          [a \in Tokens |-> IF a = "tok" THEN r.ret ELSE "none"])]

\* history of the order books: the messages still to come, their kinds, and
\* the message and the cache of the last step
BookBudget(left, kinds) ==
    [left |-> left, kinds |-> kinds, msg |-> NoMessage]

\* Predict.fun messages that are not orderbook messages: a heartbeat
\* ({"type":"M","topic":"heartbeat"}), a request response ({"type":"R"}) and
\* a message of any other type or topic
ControlKinds == {"hb", "resp", "other"}

ControlMessages == {Message(kd, <<>>, <<>>, 0) : kd \in ControlKinds}

Inputs(h) == {m \in CacheMessages \cup ControlMessages : m.kind \in h.kinds}

\* a scenario that dispatches no order-book message
InitBookIdle ==
    /\ inbox = NotConstructed
    /\ cache = NotConstructed
    /\ handed = NotConstructed
    /\ clock = NotConstructed
    /\ book_hist = NotConstructed

InitBooks(left, kinds) ==
    /\ book_hist = BookBudget(left, kinds)
    /\ inbox \in Inputs(book_hist)
    /\ cache = EmptyCache
    /\ handed = NoHanded
    /\ clock = 1

\* the message in the inbox has been dispatched; the next one arrives
NextMessage ==
    /\ book_hist' = [book_hist EXCEPT !.left = @ - 1, !.msg = inbox]
    /\ inbox' \in IF book_hist.left > 1 THEN Inputs(book_hist) ELSE {NoMessage}
    /\ UNCHANGED <<ovars, uvars, kvars>>

\* a Predict.fun orderbook message is parsed and given to on_update
PredictFunBookMessage ==
    /\ inbox.kind = "pf"
    /\ \E now \in (IF inbox.ts = 0 THEN clock..MaxTs ELSE {clock}) :
          LET r == OnUpdate(cache, PredictFunParseOrderbookData(inbox, now)) IN
          /\ cache' = r.cache
          /\ handed' = r.handed
          /\ clock' = now
    /\ NextMessage

\* PredictFunWebSocket._parse_orderbook_message: only a predictOrderbook
\* topic is parsed, every other message gives None
PredictFunParseOrderbookMessage(msg, now) ==
    IF msg.kind = "pf" THEN PredictFunParseOrderbookData(msg, now) ELSE NoBook

\* a Predict.fun message that is not an orderbook message arrives:
\* _process_message_item returns when the parser gave None
PredictFunControlMessage ==
    /\ inbox.kind \in ControlKinds
    /\ LET ob == PredictFunParseOrderbookMessage(inbox, clock)
           r == OnUpdate(cache, ob) IN
       IF ob.some
       THEN cache' = r.cache /\ handed' = r.handed
       ELSE cache' = cache /\ handed' = NoHanded
    /\ clock' = clock
    /\ NextMessage

\* PolymarketWebSocket._process_message_item: the message in the inbox is
\* parsed and, unless the parser raised, dispatched
PolymarketDispatched ==
    /\ LET ob == PolymarketParseOrderbookMessage(inbox)
           r == PolymarketOnUpdate(cache, ob) IN
       IF ob.some
       THEN cache' = r.cache /\ handed' = r.handed
       ELSE cache' = cache /\ handed' = NoHanded
    /\ clock' = clock

\* a Polymarket message with event_type "book" arrives
PolymarketBookMessage ==
    /\ inbox.kind = "book"
    /\ PolymarketDispatched
    /\ NextMessage

\* a Polymarket message with event_type "price_change" arrives
PolymarketPriceChangeMessage ==
    /\ inbox.kind = "price_change"
    /\ PolymarketDispatched
    /\ NextMessage

\* clear_orderbooks()
ClearOrderbooks ==
    /\ cache # EmptyCache
    /\ cache' = EmptyCache
    /\ handed' = NoHanded
    /\ book_hist' = [book_hist EXCEPT !.msg = NoMessage]
    /\ UNCHANGED <<inbox, clock>>
    /\ UNCHANGED <<ovars, uvars, kvars>>

\* -------------------------------------------------------------- Kalshi
\* the operations of Kalshi that call _ensure_auth
AuthOps ==
    {"create_order", "cancel_order", "fetch_order", "fetch_open_orders",
     "fetch_positions", "fetch_balance"}

\* what _request does: it returns the decoded response or raises
Responses == {"ok", "ExchangeError", "AuthenticationError", "NetworkError"}

\* Kalshi.__init__: the private key is loaded only when api_key_id is given
\* and not empty, from private_key_path or private_key_pem
KalshiInit(api_key_id, key) ==
    /\ kalshi_api_key_id = api_key_id
    /\ kalshi_auth = (api_key_id \notin {"none", ""} /\ key # "none")

\* Kalshi._is_authenticated
IsAuthenticated == kalshi_api_key_id # "none" /\ kalshi_auth

KalshiCall(op, price_ok, outcome_ok, response, requested, result) ==
    [op |-> op, price_ok |-> price_ok, outcome_ok |-> outcome_ok,
     response |-> response, requested |-> requested, result |-> result]

NoKalshiCall == KalshiCall("none", TRUE, TRUE, "none", FALSE, "none")

\* The code of an operation after its _ensure_auth(): create_order checks
\* its arguments, every operation enters _request once, and each handles
\* what _request raises in its own way.
AfterAuth(op, price_ok, outcome_ok, response) ==
    IF op = "create_order" /\ ~(price_ok /\ outcome_ok)
    THEN KalshiCall(op, price_ok, outcome_ok, "none", FALSE, "InvalidOrder")
    ELSE KalshiCall(op, price_ok, outcome_ok, response, TRUE,
            CASE response = "ok" -> "ok"
              [] op = "create_order" ->
                    IF response = "ExchangeError" THEN "InvalidOrder" ELSE response
              [] op \in {"cancel_order", "fetch_order"} -> response
              [] op \in {"fetch_open_orders", "fetch_positions"} -> "ok"
              [] OTHER -> "ExchangeError")

\* mutant of Operation: create_order checks its arguments before _ensure_auth
OperationValidatesFirst(op, price_ok, outcome_ok, response) ==
    IF op = "create_order" /\ ~(price_ok /\ outcome_ok)
    THEN KalshiCall(op, price_ok, outcome_ok, "none", FALSE, "InvalidOrder")
    ELSE IF ~IsAuthenticated
    THEN KalshiCall(op, price_ok, outcome_ok, "none", FALSE, "AuthenticationError")
    ELSE AfterAuth(op, price_ok, outcome_ok, response)

\* create_order, cancel_order, fetch_order, fetch_open_orders,
\* fetch_positions, fetch_balance: self._ensure_auth() is the first statement
Operation(op, price_ok, outcome_ok, response) ==
    IF ~IsAuthenticated
    THEN KalshiCall(op, price_ok, outcome_ok, "none", FALSE, "AuthenticationError")
    ELSE AfterAuth(op, price_ok, outcome_ok, response)

\* a scenario without a Kalshi exchange object
InitKalshiIdle ==
    /\ kalshi_api_key_id = NotConstructed
    /\ kalshi_auth = NotConstructed
    /\ kalshi_http = NotConstructed
    /\ kalshi_last = NotConstructed
    /\ kalshi_left = NotConstructed

\* a caller calls one of the operations
KalshiOperation ==
    /\ kalshi_left > 0
    /\ \E op \in AuthOps, price_ok \in BOOLEAN, outcome_ok \in BOOLEAN,
          response \in Responses :
          /\ op # "create_order" => (price_ok /\ outcome_ok)
          /\ kalshi_last' = Operation(op, price_ok, outcome_ok, response)
          /\ kalshi_http' = kalshi_http + (IF kalshi_last'.requested THEN 1 ELSE 0)
    /\ kalshi_left' = kalshi_left - 1
    /\ UNCHANGED <<kalshi_api_key_id, kalshi_auth>>
    /\ UNCHANGED <<ovars, uvars, bvars>>

\* ------------------------------------------------------------- actions
InitObject ==
    /\ venue \in Venues
    /\ state = "disconnected"
    /\ ws = 0
    /\ auto_reconnect \in BOOLEAN
    /\ reconnect_attempts = 0
    /\ subscriptions = <<>>
    /\ subscribed_assets = {}
    /\ subscribed_markets = {}
    /\ request_id = 0
    /\ last_heartbeat_ts = 0
    /\ hb_tasks = 0
    /\ transports = <<>>
    /\ sent = <<>>
    /\ invoked = <<>>
    /\ task = [t \in Tasks |-> IdleTask]

\* what the environment may still do, and what the callers have done
Budget(calls, faults, frames) ==
    [calls |-> calls, faults |-> faults, frames |-> frames,
     discon |-> FALSE, raced |-> {}, failed |-> 0, rec |-> FALSE,
     queued |-> {}, ret |-> FALSE, cbs |-> Callbacks, caused |-> 0,
     tried |-> 0, ev |-> NoEvent]

\* the same, with callers that all pass the same callback: a scenario that
\* delivers no frame never calls one
OneCallback(budget) == [budget EXCEPT !.cbs = {"cb1"}]

\* the same, with the run of failed reconnection attempts recorded
Recording(budget) == [budget EXCEPT !.rec = TRUE]

Init ==
    /\ InitObject
    /\ hist = OneCallback(Budget(MaxCalls, MaxFaults, 0))
    /\ InitUserIdle
    /\ InitKalshiIdle
    /\ InitBookIdle

InitRx ==
    /\ InitObject
    /\ auto_reconnect
    /\ hist = Budget(MaxRxCalls, 0, MaxFrames)
    /\ InitUserIdle
    /\ InitKalshiIdle
    /\ InitBookIdle

\* the loop made by start() is running its coroutine
LoopRunning == task["rx"].pc \notin {"idle", "done", "dead"}

\* A caller's call begins: the locals of its coroutine.
Call(t, op, k, cb) ==
    [Self(t) EXCEPT !.tk = [IdleTask EXCEPT !.op = op, !.key = k],
                    !.hist.calls = @ - 1,
                    !.hist.raced = @ \ {t},
                    !.hist.caused = 0,
                    !.hist.ev = Event(op, k, cb, NoFrame)]

\* the coroutines that are inside connect() or waiting out the backoff delay
InFlight ==
    {u \in Tasks : \/ task[u].pc \in {"sleep", "open"}
                   \/ task[u].pc = "send" /\ task[u].after = "replay"}

\* history: disconnect() has been called, and these coroutines were in flight
NoteDisconnect(m) == [m EXCEPT !.hist.discon = TRUE, !.hist.raced = InFlight]

CanCall(t) == task[t].pc = "idle" /\ hist.calls > 0

\* start(): connect() then _receive_loop() on the connection's own loop
Start ==
    /\ task["rx"].pc = "idle"
    /\ Commit("rx", ConnectEntry([Self("rx") EXCEPT !.tk.op = "start"], "start"))

\* a caller awaits connect()
ApiConnect ==
    /\ CanCall("api")
    /\ Commit("api", ConnectEntry(Call("api", "connect", "none", "none"), "connect"))

\* a caller awaits disconnect()
ApiDisconnect ==
    /\ CanCall("api")
    /\ Commit("api", NoteDisconnect(
                         DisconnectEntry(Call("api", "disconnect", "none", "none"))))

\* stop(): disconnect() is posted to the connection's loop from another thread
Stop ==
    /\ CanCall("stp")
    /\ LoopRunning
    /\ Commit("stp", NoteDisconnect(
                         DisconnectEntry(Call("stp", "disconnect", "none", "none"))))

\* a caller awaits watch_orderbook(k, cb)
ApiWatch ==
    /\ CanCall("api")
    /\ \E k \in Keys, cb \in hist.cbs :
          Commit("api", WatchOrderbook(Call("api", "watch", k, cb), k, cb))

\* a caller awaits unwatch_orderbook(k)
ApiUnwatch ==
    /\ CanCall("api")
    /\ \E k \in Keys :
          Commit("api", UnwatchOrderbook(Call("api", "unwatch", k, "none"), k))

\* a coroutine posted to the connection's loop runs only while that loop runs
MayRun(t) == t # "stp" \/ LoopRunning

\* websockets.connect returns a transport
OpenOk ==
    \E t \in Tasks :
        /\ task[t].pc = "open"
        /\ MayRun(t)
        /\ Commit(t, ConnectOpened(Self(t)))

\* websockets.connect raises: the peer cannot be reached ("unreachable") or
\* it rejects the opening handshake ("rejected"); connect() catches both alike
OpenFail ==
    \E t \in Tasks, why \in {"unreachable", "rejected"} :
        /\ task[t].pc = "open"
        /\ MayRun(t)
        /\ Commit(t, ConnectFailed(
                         [Self(t) EXCEPT !.hist.ev = Event(why, "none", "none", NoFrame)]))

\* await self.ws.send(...) completes
SendComplete ==
    \E t \in Tasks :
        /\ task[t].pc = "send"
        /\ MayRun(t)
        /\ Commit(t, SendDone(Self(t)))

\* await self.ws.close() completes
CloseComplete ==
    \E t \in Tasks :
        /\ task[t].pc = "close"
        /\ MayRun(t)
        /\ Commit(t, DisconnectClosed(Self(t)))

\* await asyncio.sleep(delay) in _reconnect completes: connect() is called
ReconnectWake ==
    /\ task["rx"].pc = "sleep"
    /\ Commit("rx", ConnectEntry([Self("rx") EXCEPT !.tk.delay = 0], "reconnect"))

\* `async for message in self.ws` yields a frame
Receive ==
    /\ task["rx"].pc = "recv"
    /\ transports[task["rx"].rxws] = "open"
    /\ hist.frames > 0
    /\ \E f \in InboundFrames :
          Commit("rx", HandleMessage(
                         [Self("rx") EXCEPT !.hist.frames = @ - 1,
                                            !.hist.ev = Event("frame", "none", "none", f)],
                         f))

\* `async for message in self.ws` raises: the transport is broken
ReceiveRaises ==
    /\ task["rx"].pc = "recv"
    /\ transports[task["rx"].rxws] = "broken"
    /\ Commit("rx", ReceiveError(Self("rx")))

\* `async for message in self.ws` ends: the transport was closed cleanly
ReceiveEnds ==
    /\ task["rx"].pc = "recv"
    /\ transports[task["rx"].rxws] \in {"eof", "closed"}
    /\ Commit("rx", ReceiveLoopTop(Self("rx")))

\* a heartbeat-response task made by ensure_future gets to run
HeartbeatTask ==
    /\ hb_tasks > 0
    /\ LoopRunning
    /\ LET m == SendHeartbeatResponse(Self("rx")) IN
       Commit("rx", [m EXCEPT !.hb_tasks = @ - 1])

\* the peer or the network ends an open transport, with an error ("broken")
\* or with a clean close ("eof")
Fault ==
    /\ hist.faults > 0
    /\ \E i \in 1..Len(transports), how \in {"broken", "eof"} :
          /\ transports[i] = "open"
          /\ transports' = [transports EXCEPT ![i] = how]
          /\ hist' = [hist EXCEPT !.faults = @ - 1, !.ev = NoEvent, !.ret = FALSE]
    /\ UNCHANGED <<venue, state, ws, auto_reconnect, reconnect_attempts,
                   subscriptions, subscribed_assets, subscribed_markets,
                   request_id, last_heartbeat_ts, hb_tasks, sent, invoked, task>>
    /\ UNCHANGED <<uvars, bvars, kvars>>

\* the connection manager's lifecycle: callers, the loop task, the transport
Next ==
    \/ Start
    \/ ApiConnect
    \/ ApiDisconnect
    \/ Stop
    \/ ApiWatch
    \/ ApiUnwatch
    \/ OpenOk
    \/ OpenFail
    \/ SendComplete
    \/ CloseComplete
    \/ ReconnectWake
    \/ ReceiveRaises
    \/ ReceiveEnds
    \/ Fault

Spec == Init /\ [][Next]_vars

\* the steps the connection's event loop takes by itself: an awaited send,
\* close or sleep completes, `async for` raises or ends on a transport that
\* is no longer open
LoopStep ==
    \/ SendComplete
    \/ CloseComplete
    \/ ReconnectWake
    \/ ReceiveRaises
    \/ ReceiveEnds

\* the connection manager with its event loop scheduled: a coroutine that
\* can go on without the peer does go on
SpecLive == Spec /\ WF_vars(LoopStep)

\* a live connection: subscribing, unsubscribing and dispatching inbound frames
NextRx ==
    \/ Start
    \/ ApiWatch
    \/ ApiUnwatch
    \/ OpenOk
    \/ OpenFail
    \/ SendComplete
    \/ Receive
    \/ HeartbeatTask

SpecRx == InitRx /\ [][NextRx]_vars

\* the public-book venue with auto-reconnect: a longer history of watch and
\* unwatch calls around one transport failure and the reconnect that follows
InitSub ==
    /\ InitObject
    /\ venue = "polymarket"
    /\ auto_reconnect
    /\ hist = Budget(MaxSubCalls, MaxSubFaults, 0)
    /\ InitUserIdle
    /\ InitKalshiIdle
    /\ InitBookIdle

NextSub ==
    \/ Start
    \/ ApiWatch
    \/ ApiUnwatch
    \/ OpenOk
    \/ OpenFail
    \/ SendComplete
    \/ ReconnectWake
    \/ ReceiveRaises
    \/ ReceiveEnds
    \/ Fault

SpecSub == InitSub /\ [][NextSub]_vars

\* the reconnect procedure with auto-reconnect: keys are watched, and the
\* transport may fail both while frames are read and during connect's replay
InitRetry ==
    /\ InitObject
    /\ auto_reconnect
    /\ hist = Recording(Budget(MaxRetryCalls, MaxRetryFaults, 0))
    /\ InitUserIdle
    /\ InitKalshiIdle
    /\ InitBookIdle

NextRetry ==
    \/ Start
    \/ ApiWatch
    \/ OpenOk
    \/ OpenFail
    \/ SendComplete
    \/ ReconnectWake
    \/ ReceiveRaises
    \/ ReceiveEnds
    \/ Fault

SpecRetry == InitRetry /\ [][NextRetry]_vars

\* closing a connection that is receiving frames: a key is watched, then
\* disconnect() or stop() is called while frames may still arrive
InitClose ==
    /\ InitObject
    /\ hist = Budget(MaxCloseCalls, 0, MaxCloseFrames)
    /\ InitUserIdle
    /\ InitKalshiIdle
    /\ InitBookIdle

NextClose ==
    \/ Start
    \/ ApiWatch
    \/ ApiDisconnect
    \/ Stop
    \/ OpenOk
    \/ OpenFail
    \/ SendComplete
    \/ CloseComplete
    \/ Receive
    \/ ReceiveEnds
    \/ HeartbeatTask

SpecClose == InitClose /\ [][NextClose]_vars

\* ------------------------------------ PredictFunUserWebSocket: actions
InitUser ==
    /\ InitObject
    /\ venue = "predictfun"
    /\ auto_reconnect
    /\ hist = Budget(0, 0, 0)
    /\ InitUserObject
    /\ InitKalshiIdle
    /\ InitBookIdle
    /\ user_hist = UserBudget(MaxUserCalls, MaxUserFaults, MaxUserFrames)

UserCall(op, cb) ==
    [UserSelf EXCEPT !.hist.calls = @ - 1, !.hist.ev = UserEvent(op, cb, NoUserFrame)]

\* the thread made by start() is inside _receive_loop
UserLoopRunning == user_task.loop \notin {"idle", "done"}

\* on_event(callback)
UserOnEvent ==
    /\ user_hist.calls > 0
    /\ \E cb \in UserCallbacks :
          UserCommit([UserCall("on_event", cb) EXCEPT
                          !.event_callbacks = Append(@, cb)])

\* on_trade(callback)
UserOnTrade ==
    /\ user_hist.calls > 0
    /\ \E cb \in UserCallbacks :
          UserCommit([UserCall("on_trade", cb) EXCEPT
                          !.trade_callbacks = Append(@, cb)])

\* start(), called when no thread of an earlier start() is still alive; a
\* second start() while running returns the thread it has
UserStart ==
    /\ user_hist.calls > 0
    /\ ~UserLoopRunning
    /\ LET u == UserCall("start", "none") IN
       UserCommit(IF u.running THEN u
                  ELSE UserLoopTop([u EXCEPT !.running = TRUE]))

\* stop() at self._thread.join(timeout=SHUTDOWN_TIMEOUT): a thread that has
\* ended, or was never started, is joined at once, and the loop.stop() posted
\* afterwards finds no loop running
UserJoin(u) ==
    IF u.tk.loop \in {"idle", "done"}
    THEN [u EXCEPT !.tk.stop = "idle"]
    ELSE [u EXCEPT !.tk.stop = "join"]

\* a step of _receive_loop; when loop.stop() has been posted it is the last
\* one the event loop runs
UserLoopCommit(u) ==
    UserCommit(IF user_task.halt
               THEN [u EXCEPT !.tk.loop = "done", !.tk.halt = FALSE]
               ELSE u)

\* stop() up to run_coroutine_threadsafe(self.ws.close(), self._loop)
UserStop ==
    /\ user_hist.calls > 0
    /\ user_task.stop = "idle"
    /\ LET u  == UserCall("stop", "none")
           u1 == [u EXCEPT !.running = FALSE]
       IN UserCommit(IF u1.ws # 0 /\ UserLoopRunning
                     THEN [u1 EXCEPT !.tk.stop = "close", !.tk.stopws = u1.ws]
                     ELSE UserJoin(u1))

\* the loop runs the ws.close() that stop() posted, or the loop has ended
\* and stop() gives up after SHUTDOWN_TIMEOUT
UserStopClose ==
    /\ user_task.stop = "close"
    /\ LET u == UserJoin(UserSelf) IN
       UserCommit(IF UserLoopRunning
                  THEN [u EXCEPT !.transports[u.tk.stopws] =
                                     IF @ = "open" THEN "closed" ELSE @]
                  ELSE u)

\* self._thread.join(timeout=SHUTDOWN_TIMEOUT) returns, because the thread
\* has ended or because the timeout has passed; stop() then posts
\* loop.stop() with call_soon_threadsafe and returns
UserStopJoin ==
    /\ user_task.stop = "join"
    /\ UserCommit([UserSelf EXCEPT !.tk.stop = "idle",
                                   !.tk.halt = UserLoopRunning])

\* the event loop runs the loop.stop() that stop() posted:
\* run_until_complete raises in the thread and _receive_loop is not resumed
UserHalt ==
    /\ user_task.halt
    /\ UserCommit([UserSelf EXCEPT !.tk.loop = "done", !.tk.halt = FALSE])

\* websockets.connect(...) returns a transport
UserOpenOk ==
    /\ user_task.loop = "open"
    /\ UserLoopCommit(UserConnected(UserSelf))

\* websockets.connect(...) raises
UserOpenFail ==
    /\ user_task.loop = "open"
    /\ UserLoopCommit(UserLoopError(UserSelf))

\* an awaited ws.send returns; both senders go on to `async for`
UserSendComplete ==
    /\ user_task.loop = "send"
    /\ UserLoopCommit([UserSelf EXCEPT !.tk.loop = "recv", !.tk.rxws = user_ws])

\* `async for message in self.ws` yields a frame
UserReceive ==
    /\ user_task.loop = "recv"
    /\ user_transports[user_task.rxws] = "open"
    /\ user_hist.frames > 0
    /\ \E f \in UserFrames :
          UserLoopCommit(UserHandleMessage(
                         [UserSelf EXCEPT !.hist.frames = @ - 1,
                                          !.hist.ev = UserEvent("frame", "none", f)],
                         f))

\* `async for message in self.ws` raises ConnectionClosed
UserReceiveRaises ==
    /\ user_task.loop = "recv"
    /\ user_transports[user_task.rxws] = "broken"
    /\ UserLoopCommit(UserLoopError(UserSelf))

\* `async for message in self.ws` ends: the transport was closed cleanly
UserReceiveEnds ==
    /\ user_task.loop = "recv"
    /\ user_transports[user_task.rxws] \in {"eof", "closed"}
    /\ UserLoopCommit(UserLoopTop(UserSelf))

\* asyncio.sleep(RECONNECT_DELAY) returns
UserWake ==
    /\ user_task.loop = "sleep"
    /\ UserLoopCommit(UserLoopTop(UserSelf))

\* the peer or the network ends an open transport of the user-event channel
UserFault ==
    /\ user_hist.faults > 0
    /\ \E i \in 1..Len(user_transports), how \in {"broken", "eof"} :
          /\ user_transports[i] = "open"
          /\ UserCommit([UserSelf EXCEPT !.transports[i] = how,
                                         !.hist.faults = @ - 1])

NextUser ==
    \/ UserOnEvent
    \/ UserOnTrade
    \/ UserStart
    \/ UserStop
    \/ UserStopClose
    \/ UserStopJoin
    \/ UserHalt
    \/ UserOpenOk
    \/ UserOpenFail
    \/ UserSendComplete
    \/ UserReceive
    \/ UserReceiveRaises
    \/ UserReceiveEnds
    \/ UserWake
    \/ UserFault

SpecUser == InitUser /\ [][NextUser]_vars

\* the steps of _receive_loop that wait for nothing but the event loop or a
\* timer: a send completing, `async for` raising or ending on a transport
\* that is no longer open, asyncio.sleep(RECONNECT_DELAY) returning
UserLoopStep ==
    \/ UserSendComplete
    \/ UserReceiveRaises
    \/ UserReceiveEnds
    \/ UserWake

\* the steps of stop() that end by themselves or by a timeout, and the
\* loop.stop() it posts
UserStopStep ==
    \/ UserStopClose
    \/ UserStopJoin
    \/ UserHalt

\* the user-event channel with its loop scheduled: the thread of start()
\* runs _receive_loop for as long as it has a step to take
SpecUserLive == SpecUser /\ WF_vars(UserLoopStep) /\ WF_vars(UserStopStep)

\* the venue parsers on one message of any shape
InitParse ==
    /\ InitObject
    /\ venue = "predictfun"
    /\ auto_reconnect
    /\ hist = Budget(0, 0, 0)
    /\ InitUserIdle
    /\ InitKalshiIdle
    /\ book_hist = BookBudget(1, {"pf", "book", "price_change"})
    /\ IsParseMessage(inbox)
    /\ cache = EmptyCache
    /\ handed = NoHanded
    /\ clock = 1

NextParse ==
    \/ PredictFunBookMessage
    \/ PolymarketBookMessage
    \/ PolymarketPriceChangeMessage

SpecParse == InitParse /\ [][NextParse]_vars

\* the cache of the binary market under a sequence of orderbook messages
InitCache ==
    /\ InitObject
    /\ venue = "predictfun"
    /\ auto_reconnect
    /\ hist = Budget(0, 0, 0)
    /\ InitUserIdle
    /\ InitKalshiIdle
    /\ InitBooks(MaxCacheFrames, {"pf"} \cup ControlKinds)

NextCache ==
    \/ PredictFunBookMessage
    \/ PredictFunControlMessage
    \/ ClearOrderbooks

SpecCache == InitCache /\ [][NextCache]_vars

\* snapshots and deltas of the public-book venue, one after another
InitDelta ==
    /\ InitObject
    /\ venue = "polymarket"
    /\ auto_reconnect
    /\ hist = Budget(0, 0, 0)
    /\ InitUserIdle
    /\ InitKalshiIdle
    /\ InitBooks(MaxDeltaFrames, {"book", "price_change"})

NextDelta ==
    \/ PolymarketBookMessage
    \/ PolymarketPriceChangeMessage

SpecDelta == InitDelta /\ [][NextDelta]_vars

\* a Kalshi exchange built from any configuration, and the calls made on it
InitKalshi ==
    /\ InitObject
    /\ venue = "polymarket"
    /\ auto_reconnect
    /\ hist = Budget(0, 0, 0)
    /\ InitUserIdle
    /\ InitBookIdle
    /\ \E api_key_id \in {"none", "", "id"}, key \in {"none", "path", "pem"} :
          KalshiInit(api_key_id, key)
    /\ kalshi_http = 0
    /\ kalshi_last = NoKalshiCall
    /\ kalshi_left = MaxKalshiCalls

NextKalshi == KalshiOperation

SpecKalshi == InitKalshi /\ [][NextKalshi]_vars

\* ============================================================ claims
\* the frames of s that subscribe a key: connect's replay and watch_orderbook
SubscribeFrames(s) == SelectSeq(s, LAMBDA f : f.by \in {"replay", "sub"})

\* the key of a frame that carries exactly one key
KeyOfFrame(f) == CHOOSE k \in f.keys : TRUE

\* the keys subscribed by the frames of s, in the order they were sent
KeysSent(s) ==
    LET fs == SubscribeFrames(s) IN [i \in 1..Len(fs) |-> KeyOfFrame(fs[i])]

\* C1: once disconnect() has been called the state is Closed and stays Closed
\* whatever step follows.
C1_ClosedIsTerminal == hist.discon => state = "closed"

\* the coroutine t, which was inside connect() or in the backoff wait when
\* disconnect() ran, takes a step
RacedStep(t) ==
    /\ t \in hist.raced
    /\ task[t].pc \in {"sleep", "open", "send"}
    /\ task'[t] # task[t]

\* C2: when disconnect() runs while a reconnect is waiting out its backoff or a
\* connect() is in progress, that reconnect or connect opens no transport, sends
\* no subscribe frame and does not leave the connection Connected.
C2_DisconnectCancelsPending ==
    [][\A t \in Tasks :
          RacedStep(t) =>
              /\ Len(transports') = Len(transports)
              /\ SubscribeFrames(sent') = SubscribeFrames(sent)
              /\ state' # "connected"]_vars

\* the connect() that _reconnect called returns without raising: the receive
\* loop goes back to reading frames
ReconnectSucceeds ==
    /\ task["rx"].ctx = "reconnect"
    /\ task["rx"].pc \in {"open", "send"}
    /\ task'["rx"].pc = "recv"

\* C3: after a transport failure and a successful reconnect, the subscribe
\* frames sent on the new transport are exactly one per registered key, in
\* registry order, on both venues.
C3_ReconnectReplaysRegistry ==
    [][ReconnectSucceeds => KeysSent(sent') = KeysOf(subscriptions')]_vars

\* the receive loop reads an inbound frame in this step
IsReceive == hist'.ev.op = "frame"

\* a heartbeat-response task runs in this step
IsHeartbeatTask == hb_tasks' = hb_tasks - 1

HeartbeatFrame(n) == Sent([method |-> "heartbeat", keys |-> {}, id |-> n], "hb")

\* C4: on the heartbeat-keepalive orderbook channel every heartbeat frame with
\* nonce N is answered by exactly one {"method":"heartbeat","data":N} before
\* the next inbound frame or array item is processed: no response is pending
\* when a frame is read, at most the last item of a frame leaves one pending,
\* and the response task sends the nonce of its heartbeat.
C4_HeartbeatEchoedBeforeNext ==
    [][/\ IsReceive => hb_tasks = 0 /\ hb_tasks' <= 1
       /\ IsHeartbeatTask =>
             sent' = Append(sent, HeartbeatFrame(last_heartbeat_ts))]_vars

\* the receive loop of the user-event channel reads an inbound frame in this step
UserIsReceive == user_hist'.ev.op = "frame"

\* C5: on the user-event channel every heartbeat frame with nonce N received
\* while connected is answered by exactly one {"method":"heartbeat","data":N},
\* handed to the transport before the loop reads the next inbound frame.
C5_UserHeartbeatEchoed ==
    [][(UserIsReceive /\ user_hist'.ev.frame.kind = "hb" /\ connected) =>
          /\ user_sent' = Append(user_sent, HeartbeatFrame(user_hist'.ev.frame.n))
          /\ user_task'.loop = "send"]_vars

\* every value of the frame is malformed: the text is not JSON, or the value is
\* not an object, or it lacks its type field or its bids and asks
Malformed(f) ==
    \/ ~f.json
    \/ \A i \in 1..Len(f.items) : f.items[i].kind \in {"nondict", "other", "bare"}

\* C6: a malformed inbound frame changes nothing: no callback is invoked, the
\* registry and the connection state are unchanged, no frame is sent and the
\* receive loop goes on reading.
C6_MalformedFrameDropped ==
    [][(IsReceive /\ Malformed(hist'.ev.frame)) =>
          /\ invoked' = invoked
          /\ subscriptions' = subscriptions
          /\ state' = state
          /\ sent' = sent
          /\ task'["rx"].pc = "recv"]_vars

\* the registry holds at most one entry per key
UniqueKeys(subs) ==
    \A i, j \in 1..Len(subs) : subs[i].key = subs[j].key => i = j

\* the frame is one complete orderbook message that names the key k alone
UpdateFor(f, k) ==
    /\ f.json
    /\ Len(f.items) = 1
    /\ f.items[1].kind = "book"
    /\ f.items[1].market = k
    /\ f.items[1].asset \in {k, ""}

\* C7: the registry is keyed-unique: watch_orderbook(k, cb) leaves exactly one
\* entry for k, holding cb, and an inbound update for a registered key k invokes
\* the callback registered for k exactly once and no other callback.
C7_RegistryKeyedUnique ==
    [][/\ UniqueKeys(subscriptions')
       /\ hist'.ev.op = "watch" =>
             /\ hist'.ev.key \in KeySet(subscriptions')
             /\ CallbackOf(subscriptions', hist'.ev.key) = hist'.ev.cb
       /\ \A k \in KeySet(subscriptions) :
             (IsReceive /\ UpdateFor(hist'.ev.frame, k)) =>
                 invoked' = Append(invoked,
                     [cb |-> CallbackOf(subscriptions, k), key |-> k,
                      bare |-> FALSE])]_vars

\* k was watched with cb1 and then with cb2, and an update for k was dispatched
C7_Witness ==
    /\ hist.calls = 0
    /\ hist.ev.op = "frame"
    /\ subscriptions = <<[key |-> "k1", cb |-> "cb2"]>>
    /\ invoked = <<[cb |-> "cb2", key |-> "k1", bare |-> FALSE]>>
    /\ Len(SubscribeFrames(sent)) = 2

\* C8: the registry changes only in watch_orderbook, which adds or replaces its
\* key, and in unwatch_orderbook, which removes its key; connect, a failed
\* connect, disconnect, a transport error, a reconnect attempt and the end of
\* the retries leave it as it is.
C8_RegistryChangesOnlyByCaller ==
    [][/\ hist'.ev.op = "watch" =>
             KeySet(subscriptions') = KeySet(subscriptions) \cup {hist'.ev.key}
       /\ hist'.ev.op = "unwatch" =>
             KeySet(subscriptions') = KeySet(subscriptions) \ {hist'.ev.key}
       /\ hist'.ev.op \notin {"watch", "unwatch"} =>
             subscriptions' = subscriptions]_vars

\* the retries ran out after a transport error, and the registry still holds
\* the key that was watched
C8_Witness ==
    /\ state = "closed"
    /\ ~hist.discon
    /\ reconnect_attempts = MaxAttempts
    /\ task["rx"].pc = "done"
    /\ subscriptions # <<>>

\* the callbacks invoked in this step
NewInvoked == SubSeq(invoked', Len(invoked) + 1, Len(invoked'))

\* unwatch_orderbook(k) is called in this step for a registered key k
IsUnwatchOf(k) ==
    /\ hist'.ev.op = "unwatch"
    /\ hist'.ev.key = k
    /\ k \in KeySet(subscriptions)

\* the call made in this step raised
CallRaised == task'["api"].pc = "idle" /\ task'["api"].res = "error"

\* the step appends exactly one frame, sent by unwatch_orderbook
OneRemovalFrame ==
    /\ Len(sent') = Len(sent) + 1
    /\ SubSeq(sent', 1, Len(sent)) = sent
    /\ sent'[Len(sent')].by = "unsub"

\* after unwatch_orderbook(k) the registry does not hold k, and a frame
\* invokes only callbacks of keys the registry holds
UnwatchRemoves ==
    /\ \A k \in Keys : IsUnwatchOf(k) => k \notin KeySet(subscriptions')
    /\ IsReceive =>
          \A i \in 1..Len(NewInvoked) :
              /\ NewInvoked[i].key \in KeySet(subscriptions)
              /\ NewInvoked[i].cb = CallbackOf(subscriptions, NewInvoked[i].key)

\* C9 as claimed: unwatch_orderbook(k) removes k, no later frame invokes a
\* callback under k, and when the state is Connected at the call exactly one
\* removal frame is sent.
C9_UnwatchSendsRemoval ==
    [][/\ UnwatchRemoves
       /\ \A k \in Keys :
             (IsUnwatchOf(k) /\ state = "connected" /\ ~CallRaised) =>
                 OneRemovalFrame]_vars

\* the venue has a subscription of k to remove: always on the public-book
\* venue, on the heartbeat-keepalive venue when a subscribe frame for k has
\* been sent (k is in _subscribed_markets)
HasRemoval(k) == venue = "polymarket" \/ k \in subscribed_markets

\* C9 amended: unwatch_orderbook(k) removes k and no later frame invokes a
\* callback under k; when the state is Connected at the call and the venue has
\* a subscription of k to remove, exactly one removal frame is sent, and
\* otherwise none is.
C9_UnwatchSendsRemovalIfSubscribed ==
    [][/\ UnwatchRemoves
       /\ \A k \in Keys :
             (IsUnwatchOf(k) /\ ~CallRaised) =>
                 IF state = "connected" /\ HasRemoval(k)
                 THEN OneRemovalFrame
                 ELSE sent' = sent]_vars

\* k1 was watched and unwatched while Connected, its removal frame was sent,
\* and a later update for k1 invoked nothing
C9_Witness ==
    /\ hist.calls = 0
    /\ hist.ev.op = "frame"
    /\ UpdateFor(hist.ev.frame, "k1")
    /\ subscriptions = <<>>
    /\ invoked = <<>>
    /\ state = "connected"
    /\ Len(sent) = 2
    /\ sent[2].by = "unsub"

\* C10: unwatch_orderbook(k) for a key that is not registered returns without
\* an error and changes nothing: no frame is sent, and the registry, the
\* venue-side bookkeeping and the connection state stay as they are.
C10_UnwatchUnknownIsNoOp ==
    [][(hist'.ev.op = "unwatch" /\ hist'.ev.key \notin KeySet(subscriptions)) =>
          /\ task'["api"].pc = "idle"
          /\ task'["api"].res = "ok"
          /\ sent' = sent
          /\ subscriptions' = subscriptions
          /\ subscribed_assets' = subscribed_assets
          /\ subscribed_markets' = subscribed_markets
          /\ request_id' = request_id
          /\ state' = state
          /\ ws' = ws
          /\ transports' = transports]_vars

\* unwatch_orderbook("k2") was called on a Connected manager whose registry
\* holds only "k1"
C10_Witness ==
    /\ hist.ev.op = "unwatch"
    /\ hist.ev.key = "k2"
    /\ KeySet(subscriptions) = {"k1"}
    /\ state = "connected"
    /\ Len(sent) = 1
    /\ hist.calls = 0

\* C11: on the public-book venue the frame unwatch_orderbook(k) sends while
\* Connected is a full-membership subscribe frame that lists exactly the keys
\* remaining in the registry.
C11_UnwatchFrameListsRegistry ==
    [][(venue = "polymarket" /\ hist'.ev.op = "unwatch" /\ OneRemovalFrame) =>
          /\ sent'[Len(sent')].method = "market"
          /\ sent'[Len(sent')].keys = KeySet(subscriptions')]_vars

\* connect() is entered in this step: by a caller, by start() or by _reconnect
\* after its wait
EntersConnect ==
    \/ hist'.ev.op = "connect"
    \/ task["rx"].pc \in {"idle", "sleep"} /\ task'["rx"] # task["rx"]

\* C12: connect() called while the state is Connected is a no-op: the state
\* stays Connected, no transport is opened, the attempt counter is unchanged
\* and no frame is sent.
C12_ConnectWhenConnectedIsNoOp ==
    [][(EntersConnect /\ state = "connected") =>
          /\ state' = "connected"
          /\ transports' = transports
          /\ ws' = ws
          /\ reconnect_attempts' = reconnect_attempts
          /\ sent' = sent
          /\ \A t \in Tasks : task'[t].pc = "open" => task[t].pc = "open"]_vars

\* a caller's connect() returned at once on a manager that was Connected
C12_Witness ==
    /\ hist.ev.op = "connect"
    /\ state = "connected"
    /\ task["api"].res = "ok"
    /\ Len(transports) = 1
    /\ transports[ws] = "open"

\* C13: a handshake rejection inside connect() is fatal: whichever caller
\* started that connect, the failure does not send the receive loop into the
\* wait before another connect attempt.
C13_HandshakeRejectionIsFatal ==
    [][hist'.ev.op = "rejected" =>
          (task'["rx"].pc = "sleep" => task["rx"].pc = "sleep")]_vars

\* the connect() called by _reconnect raises in this step
ReconnectConnectFails ==
    /\ task["rx"].pc = "open"
    /\ task["rx"].ctx = "reconnect"
    /\ task'["rx"] # task["rx"]
    /\ hist'.ev.op \in {"unreachable", "rejected"}

\* reading from the transport raises in this step
ReceiveFails ==
    /\ task["rx"].pc = "recv"
    /\ transports[task["rx"].rxws] = "broken"
    /\ task'["rx"] # task["rx"]

\* the transport was closed cleanly and the loop finds the manager not Connected
ReceiveEndsUnconnected ==
    /\ task["rx"].pc = "recv"
    /\ transports[task["rx"].rxws] \in {"eof", "closed"}
    /\ task'["rx"] # task["rx"]
    /\ state # "closed"
    /\ ws = 0 \/ state # "connected"

\* the receive loop enters _reconnect in this step: after a failed receive,
\* after a clean end of the transport, or after the failure of the connect()
\* the previous _reconnect made
EntersReconnect ==
    /\ auto_reconnect
    /\ \/ ReceiveFails /\ state # "closed"
       \/ ReceiveEndsUnconnected
       \/ ReconnectConnectFails

\* C14: when _reconnect is entered with the attempts used up the state becomes
\* Closed, there is no wait and no connect attempt (the receive loop ends), no
\* caller gets an exception, and the registry keeps every subscription.
C14_ExhaustedRetriesClose ==
    [][(EntersReconnect /\ reconnect_attempts >= MaxAttempts) =>
          /\ state' = "closed"
          /\ task'["rx"].pc = "done"
          /\ transports' = transports
          /\ reconnect_attempts' = reconnect_attempts
          /\ task'["api"] = task["api"]
          /\ task'["stp"] = task["stp"]
          /\ subscriptions' = subscriptions]_vars

\* the last connect() of the reconnect procedure failed with the attempts used
\* up: the manager is Closed, its loop has ended, the registry holds a key
C14_Witness ==
    /\ hist.ev.op \in {"unreachable", "rejected"}
    /\ state = "closed"
    /\ ~hist.discon
    /\ reconnect_attempts = MaxAttempts
    /\ task["rx"].pc = "done"
    /\ subscriptions # <<>>

\* C15: with auto-reconnect enabled, connect attempts of the reconnect
\* procedure that keep failing, at the open or during the replay, end in Closed
\* after at most max_attempts attempts: never more than max_attempts attempts
\* fail in a row.
C15_RetriesAreBounded == hist.failed <= MaxAttempts

\* the state becomes Connected in this step
BecomesConnected == state' = "connected" /\ state # "connected"

\* a connect() fails in this step: at the open, or in the send of its replay
ConnectFails ==
    \/ hist'.ev.op \in {"unreachable", "rejected"}
    \/ \E t \in Tasks :
          /\ task[t].pc = "send"
          /\ task[t].after = "replay"
          /\ task'[t].pc # "send"
          /\ state' = "disconnected"

\* C16 as claimed: the attempt counter is reset to zero at every transition to
\* Connected and is incremented by one on every failed connect and on every
\* failed receive.
C16_CounterCountsEveryFailure ==
    [][/\ BecomesConnected => reconnect_attempts' = 0
       /\ ConnectFails => reconnect_attempts' = reconnect_attempts + 1
       /\ ReceiveFails => reconnect_attempts' = reconnect_attempts + 1]_vars

\* the receive loop starts the wait of _reconnect in this step
StartsBackoff == task'["rx"].pc = "sleep" /\ task["rx"].pc # "sleep"

\* C16 amended: the counter is reset to zero at every transition to Connected
\* and is incremented by one exactly when the receive loop enters _reconnect
\* with attempts left, which it does after a failed receive or a failed
\* connect of its own while auto-reconnect is on; nothing else changes it, in
\* particular not a failed connect() of a caller or of start().
C16_CounterCountsReconnects ==
    [][/\ BecomesConnected => reconnect_attempts' = 0
       /\ (EntersReconnect /\ reconnect_attempts < MaxAttempts) => StartsBackoff
       /\ StartsBackoff => reconnect_attempts' = reconnect_attempts + 1
       /\ reconnect_attempts' # reconnect_attempts =>
             BecomesConnected \/ StartsBackoff]_vars

\* a caller's connect() failed while the receive loop was waiting for its
\* first reconnect attempt: the counter still stands at one
C16_Witness ==
    /\ hist.ev.op \in {"unreachable", "rejected"}
    /\ task["api"].res = "error"
    /\ task["rx"].pc = "sleep"
    /\ state = "disconnected"
    /\ reconnect_attempts = 1

\* C17: the wait before the n-th reconnect attempt in a row, n counted from 1
\* since the last successful connect, is reconnect_delay * 2^(n-1), and no
\* attempt numbered max_attempts + 1 is made.
C17_BackoffDoublesPerAttempt ==
    [][StartsBackoff =>
          /\ hist'.failed + 1 <= MaxAttempts
          /\ task'["rx"].delay = reconnect_delay * 2^(hist'.failed)]_vars

\* disconnect() has been called and every disconnect() has completed
DisconnectDone == hist.discon /\ \A t \in Tasks : task[t].pc # "close"

\* C18: disconnect() sets the state to Closed, disables auto-reconnect and
\* closes the transport; after it has completed no inbound frame, here a
\* well-formed one, is dispatched to a callback; a second disconnect() leaves
\* the state Closed and closes no transport.
C18_DisconnectStopsDispatch ==
    [][/\ hist'.ev.op = "disconnect" =>
             /\ state' = "closed"
             /\ ~auto_reconnect'
             /\ ws # 0 => transports'[ws] # "open"
       /\ (hist'.ev.op = "disconnect" /\ DisconnectDone /\ ws = 0) =>
             transports' = transports
       /\ (IsReceive /\ ~Malformed(hist'.ev.frame) /\ DisconnectDone) =>
             invoked' = invoked]_vars

\* the transports that are open
OpenTransports == {i \in 1..Len(transports) : transports[i] = "open"}

\* C19: a connection manager owns at most one open transport at any time.
C19_OneOpenTransport == Cardinality(OpenTransports) <= 1

\* the receive loop has ended and the transport it was reading had failed
LoopStoppedAfterFailure ==
    /\ task["rx"].pc = "done"
    /\ task["rx"].rxws # 0
    /\ transports[task["rx"].rxws] \in {"broken", "eof"}

\* C20: when the receive loop has stopped for good after a transport failure
\* the state is Closed, and in particular not Connected.
C20_DeadConnectionIsClosed == LoopStoppedAfterFailure => state = "closed"

\* the coroutine t is inside connect(): at the open or in the replay
InConnect(t, tk) ==
    \/ tk[t].pc = "open"
    \/ tk[t].pc = "send" /\ tk[t].after = "replay"

\* the connect() made by a caller's watch_orderbook raises in this step
WatchConnectFails ==
    /\ task["api"].op = "watch"
    /\ InConnect("api", task)
    /\ ~InConnect("api", task')
    /\ ~hist'.ret

\* a connect() that opened a transport returns in this step
ConnectSucceeds == hist'.ret /\ \E t \in Tasks : InConnect(t, task)

\* C21: when the connect() made by watch_orderbook(k, cb) fails, the caller
\* gets the failure, the state is Disconnected and k is still in the
\* registry; and when a later connect() succeeds, a subscribe frame for every
\* such k still registered has been sent on the new transport.
C21_FailedWatchIsQueued ==
    [][/\ WatchConnectFails =>
             /\ task'["api"].res = "error"
             /\ state' = "disconnected"
             /\ task["api"].key \in KeySet(subscriptions')
       /\ ConnectSucceeds =>
             \A k \in hist.queued \cap KeySet(subscriptions') :
                 \E i \in 1..Len(KeysSent(sent')) : KeysSent(sent')[i] = k]_vars

\* the first half of C21 alone: the failure is raised, the state is
\* Disconnected and the key stays registered
C21_FailedWatchKeepsKey ==
    [][WatchConnectFails =>
             /\ task'["api"].res = "error"
             /\ state' = "disconnected"
             /\ task["api"].key \in KeySet(subscriptions')]_vars
\* an orderbook message is dispatched in this step
IsMessageStep ==
    /\ book_hist'.left = book_hist.left - 1
    /\ inbox.kind \notin ControlKinds

\* the tokens of the binary market
MarketTokens == {"yes", "no"}

\* C22: the cache timestamp of a token never decreases; every orderbook
\* message is written for both tokens of the binary market, and a book whose
\* timestamp is older than the stored one is rejected and leaves the stored
\* book and timestamp as they were.
C22_CacheTimestampMonotonic ==
    [][\A a \in MarketTokens :
          /\ (cache[a].some /\ cache'[a].some) => cache'[a].ts >= cache[a].ts
          /\ IsMessageStep =>
                /\ handed'.rets[a] \in {"ok", "stale"}
                /\ (cache[a].some /\ handed'.books[a].ts < cache[a].ts) =>
                      (handed'.rets[a] = "stale" /\ cache'[a] = cache[a])
                /\ handed'.rets[a] = "ok" => cache'[a] = handed'.books[a]]_vars

\* an older book has just been rejected for both tokens
C22_Witness ==
    \A a \in MarketTokens :
        /\ handed.rets[a] = "stale"
        /\ cache[a].some
        /\ handed.books[a].ts < cache[a].ts
        /\ handed.books[a].bids # cache[a].bids
StrictlyDescending(levels) ==
    \A i \in 1..Len(levels) - 1 : levels[i][1] > levels[i + 1][1]

StrictlyAscending(levels) ==
    \A i \in 1..Len(levels) - 1 : levels[i][1] < levels[i + 1][1]

\* the books the last message produced: the one given to the callback, the
\* ones handed to the cache, and the ones the cache holds
ProducedBooks ==
    {handed.cb} \cup {handed.books[a] : a \in Tokens} \cup {cache[a] : a \in Tokens}

\* C23: every orderbook a venue parser produces from a full-book message, and
\* every book stored in the cache, has bids strictly descending and asks
\* strictly ascending by price, whatever the levels of the message are.
C23_BooksStrictlySorted ==
    book_hist.msg.kind \in {"pf", "book"} =>
        \A b \in ProducedBooks : StrictlyDescending(b.bids) /\ StrictlyAscending(b.asks)
\* how often the level l occurs in levels
Occurrences(levels, l) == Cardinality({i \in 1..Len(levels) : levels[i] = l})

\* derived is a permutation of the levels of source with every price p
\* replaced by a price that Maps(p, _) accepts, sizes kept
IsInversionOf(derived, source, Maps(_, _)) ==
    /\ Len(derived) = Len(source)
    /\ \A i \in 1..Len(derived) :
          Occurrences(derived, derived[i]) =
              Cardinality({j \in 1..Len(source) :
                              /\ Maps(source[j][1], derived[i][1])
                              /\ source[j][2] = derived[i][2]})

Descending(levels) ==
    \A i \in 1..Len(levels) - 1 : ~LevelLess(levels[i], levels[i + 1])

Ascending(levels) ==
    \A i \in 1..Len(levels) - 1 : ~LevelLess(levels[i + 1], levels[i])

\* q is exactly 1 - p
Complement(p, q) == q = One - p

\* q is 1 - p to four decimal places
RoundedComplement(p, q) ==
    /\ q % 10 = 0
    /\ q - (One - p) < 5
    /\ (One - p) - q < 5

\* the YES and the NO book of the last message relate by Maps, and both were
\* handed to the cache with one timestamp and met the same fate there
DerivedBy(Maps(_, _)) ==
    LET yes == handed.books["yes"]
        no == handed.books["no"]
    IN /\ yes.some /\ no.some
       /\ IsInversionOf(no.bids, yes.asks, Maps) /\ Descending(no.bids)
       /\ IsInversionOf(no.asks, yes.bids, Maps) /\ Ascending(no.asks)
       /\ no.ts = yes.ts
       /\ handed.rets["yes"] # "none"
       /\ handed.rets["no"] = handed.rets["yes"]
       /\ handed.rets["yes"] = "ok" => cache["yes"] = yes /\ cache["no"] = no

PricesOf(levels) == {levels[i][1] : i \in 1..Len(levels)}

LevelsOf(levels) == {levels[i] : i \in 1..Len(levels)}

\* after is before with the delta merged in: a level the delta does not name
\* stays, a price named with size zero is gone, a price named with a size is
\* there with that size
MergedInto(before, delta, after) ==
    /\ \A l \in LevelsOf(before) : l[1] \notin PricesOf(delta) => l \in LevelsOf(after)
    /\ \A d \in LevelsOf(delta) :
          IF d[2] = 0 THEN d[1] \notin PricesOf(after) ELSE d \in LevelsOf(after)
    /\ \A l \in LevelsOf(after) :
          l \in LevelsOf(before) \/ l \in LevelsOf(delta)

\* the message of this step is of the given event_type and not older than
\* the cached book
Applied(kind) ==
    /\ IsMessageStep
    /\ inbox.kind = kind
    /\ handed'.rets["tok"] = "ok"

C26_KalshiAuthBeforeAnything ==
    [][(kalshi_left' = kalshi_left - 1 /\ ~IsAuthenticated) =>
          /\ kalshi_last'.op \in AuthOps
          /\ kalshi_last'.result = "AuthenticationError"
          /\ kalshi_http' = kalshi_http]_vars

\* create_order with a price out of range has raised AuthenticationError on
\* an object that has an api_key_id but no private key
C26_Witness ==
    /\ kalshi_api_key_id = "id"
    /\ ~kalshi_auth
    /\ kalshi_last.op = "create_order"
    /\ ~kalshi_last.price_ok
    /\ kalshi_last.result = "AuthenticationError"
    /\ kalshi_http = 0
\* C27: when reading from the transport fails while the state is Connected,
\* then with auto-reconnect on the state becomes Reconnecting and _reconnect
\* runs (the attempt is counted and its wait begins); with auto-reconnect off
\* the receive loop exits, and a receive loop that has exited never runs
\* again, so it makes no connect attempt afterwards.
C27_ReadFailureReconnectsOrExits ==
    [][/\ (ReceiveFails /\ state = "connected") =>
             IF auto_reconnect
             THEN /\ state' = "reconnecting"
                  /\ reconnect_attempts' = reconnect_attempts + 1
                  /\ task'["rx"].pc = "sleep"
                  /\ task'["rx"].delay = reconnect_delay
             ELSE /\ task'["rx"].pc = "done"
                  /\ state' = state
       /\ task["rx"].pc = "done" => task'["rx"] = task["rx"]]_vars

\* the receive loop has exited after a failed read with auto-reconnect off,
\* and a caller has since begun a connect() of its own
C27_Witness ==
    /\ task["rx"].pc = "done"
    /\ task["rx"].rxws # 0
    /\ transports[task["rx"].rxws] = "broken"
    /\ ~auto_reconnect
    /\ ~hist.discon
    /\ task["api"].pc = "open"
\* the numeric levels of raw that have a positive price, as (price, size)
PositiveLevels(raw) ==
    LET keep == SelectSeq(raw, LAMBDA l : l.num /\ l.price > 0)
    IN [i \in 1..Len(keep) |-> <<keep[i].price, keep[i].size>>]

\* out holds exactly the levels with a positive price of raw, each as often
\* as raw has it
EmitsPositiveLevels(raw, out) ==
    /\ Len(out) = Len(PositiveLevels(raw))
    /\ \A i \in 1..Len(out) :
          Occurrences(out, out[i]) = Occurrences(PositiveLevels(raw), out[i])

\* what the parser of the other venue makes of the levels of msg
OtherVenueParse(msg) ==
    IF msg.kind = "pf"
    THEN PolymarketParseBookMessage(msg)
    ELSE PredictFunParseOrderbookData(msg, clock)

\* C28: for a full-book message the venue's parser emits exactly the input
\* levels with a positive price, bids descending and asks ascending, and the
\* parser of the other venue gives the same sides for the same levels.
C28_ParsersKeepPositivePrices ==
    book_hist.msg.kind \in {"pf", "book"} =>
        /\ handed.cb.some
        /\ EmitsPositiveLevels(book_hist.msg.bids, handed.cb.bids)
        /\ EmitsPositiveLevels(book_hist.msg.asks, handed.cb.asks)
        /\ Descending(handed.cb.bids)
        /\ Ascending(handed.cb.asks)
        /\ OtherVenueParse(book_hist.msg).bids = handed.cb.bids
        /\ OtherVenueParse(book_hist.msg).asks = handed.cb.asks
\* every level of book b has a price in [0, 1] and a size that is not
\* negative
LevelsInRange(b) ==
    \A side \in {b.bids, b.asks} : \A i \in 1..Len(side) :
        /\ side[i][1] >= 0 /\ side[i][1] <= One
        /\ side[i][2] >= 0

\* C29: every level of every book handed to a callback or written to the
\* cache, the derived complementary book included, has a price in [0, 1]
\* and a size >= 0.
C29_LevelsInRange ==
    \A b \in ProducedBooks : LevelsInRange(b)
\* the connection that the running loop of the user-event channel reads from
\* is lost: the read raised ("broken") or the peer closed it ("eof", "closed");
\* no stop() is in progress
UserConnectionLost ==
    /\ running
    /\ user_task.stop = "idle"
    /\ ~user_task.halt
    /\ user_task.loop = "recv"
    /\ user_transports[user_task.rxws] # "open"

\* _receive_loop is in `await self._connect()`, a new connect attempt
UserConnectAttempt == user_task.loop = "open"

\* the frames the current connection was sent hold the subscribe frame of
\* _connect once, as the first frame
UserSubscribedOnce ==
    /\ Len(user_sent) >= 1
    /\ user_sent[1] = Sent([method |-> "subscribe", keys |-> {"predictWalletEvents"},
                            id |-> user_sent[1].id], "sub")
    /\ user_sent[1].id \in 1..user_request_id
    /\ \A i \in 2..Len(user_sent) : user_sent[i].method # "subscribe"

\* C30: while the user-event channel is running, every loss of its
\* connection is followed (after the reconnect delay) by a new connect
\* attempt, however many attempts were made before, and every connection has
\* been sent exactly one subscribe frame, first, when a frame of it is read.
C30_UserChannelReconnectsAndSubscribes ==
    /\ UserConnectionLost ~> (UserConnectAttempt \/ ~running)
    /\ [][UserIsReceive => UserSubscribedOnce]_vars

\* C30, second half alone: a frame is read only from a connection that was
\* sent its one subscribe frame first.
C30_SubscribedBeforeRead ==
    [][UserIsReceive => UserSubscribedOnce]_vars

\* C30, first half for a connection whose read raised ConnectionClosed
C30_BrokenLeadsToConnect ==
    (UserConnectionLost /\ user_transports[user_task.rxws] = "broken")
        ~> (UserConnectAttempt \/ ~running)

\* C31: a wallet event of a known type invokes every registered event
\* callback once, in registration order, and if the type is
\* orderTransactionSuccess then every registered trade callback once, in
\* registration order; the loop goes on reading; an event of unknown type
\* invokes no callback.
C31_WalletEventReachesEveryCallback ==
    [][(UserIsReceive /\ user_hist'.ev.frame.kind = "wallet") =>
          LET f == user_hist'.ev.frame
              events == UserInvokeAll(user_invoked, event_callbacks, "event")
          IN /\ f.etype = "unknown" => user_invoked' = user_invoked
             /\ f.etype = "orderAccepted" => user_invoked' = events
             /\ f.etype = "orderTransactionSuccess" =>
                   user_invoked' = UserInvokeAll(events, trade_callbacks, "trade")
             /\ user_task'.loop \in {"recv", "done"}]_vars

\* C31 for the events whose order fields convert to a Trade
C31_ParsedTradeReachesEveryCallback ==
    [][(UserIsReceive /\ user_hist'.ev.frame.kind = "wallet"
          /\ (user_hist'.ev.frame.etype = "orderTransactionSuccess"
                 => user_hist'.ev.frame.trade)) =>
          LET f == user_hist'.ev.frame
              events == UserInvokeAll(user_invoked, event_callbacks, "event")
          IN /\ f.etype = "unknown" => user_invoked' = user_invoked
             /\ f.etype = "orderAccepted" => user_invoked' = events
             /\ f.etype = "orderTransactionSuccess" =>
                   user_invoked' = UserInvokeAll(events, trade_callbacks, "trade")
             /\ user_task'.loop \in {"recv", "done"}]_vars

\* the caller's watch_orderbook returns normally in this step
WatchReturns ==
    /\ task["api"].op = "watch"
    /\ task'["api"].pc = "idle"
    /\ task'["api"].res = "ok"

\* C32: a watch_orderbook(k, cb) call that returns normally has sent exactly
\* one subscribe frame for k, whether the connection was Connected already
\* or was connected by the call.
C32_WatchSubscribesOnce ==
    [][WatchReturns => hist'.caused = 1]_vars

\* C32 for the calls that found the connection Connected
C32_ConnectedWatchSubscribesOnce ==
    [][(WatchReturns /\ task["api"].ctx # "watch") => hist'.caused = 1]_vars

\* the peer has closed the transport the receive loop reads from, so that
\* the frame stream ends without an error, while the manager is Connected
\* with auto-reconnect enabled
StreamEnded ==
    /\ auto_reconnect
    /\ state = "connected"
    /\ task["rx"].pc = "recv"
    /\ transports[task["rx"].rxws] = "eof"

\* C33: with auto-reconnect enabled, when the peer closes the connection so
\* that the frame stream ends without a read error, the manager eventually
\* leaves Connected; it does not stay Connected on the dead transport.
C33_StreamEndLeavesConnected ==
    StreamEnded ~> (state # "connected")

\* C33 for a transport whose read raises: the manager leaves Connected
C33_ReadErrorLeavesConnected ==
    (/\ auto_reconnect
     /\ state = "connected"
     /\ task["rx"].pc = "recv"
     /\ transports[task["rx"].rxws] = "broken") ~> (state # "connected")

\* stop() has been called on a running user-event channel and the thread of
\* its receive loop has not ended
UserStopping == ~running /\ UserLoopRunning

\* stop() has returned and start() has not been called since
UserStopped == ~running /\ user_task.stop = "idle"

\* an event callback or a trade callback is invoked in this step
UserInvokes == user_invoked' # user_invoked

\* C34: after stop() on a running user-event channel the receive loop
\* eventually terminates, and no event or trade callback is invoked once
\* stop() has returned, whatever the loop was doing when stop() was called.
C34_StopEndsLoopAndCallbacks ==
    /\ UserStopping ~> ~UserLoopRunning
    /\ [][UserInvokes => ~UserStopped]_vars

\* C34, first half alone: the receive loop terminates after stop()
C34_StopEndsLoop == UserStopping ~> ~UserLoopRunning

\* the items of an inbound frame that are orderbook updates
UpdateItems(f) ==
    IF f.json THEN SelectSeq(f.items, LAMBDA i : i.kind \in {"book", "bare"})
    ELSE <<>>

\* the registry key an update is delivered under, "" if there is none: its
\* asset id if that is registered (public-book venue), else its market id
RegistryKey(i) ==
    LET ks == KeySet(subscriptions)
        mk == IF venue = "polymarket" /\ i.market = "" THEN i.asset ELSE i.market
    IN IF venue = "polymarket" /\ i.asset \in ks THEN i.asset
       ELSE IF mk \in ks THEN mk
       ELSE ""

\* the updates of a frame that have a registry key, each with the one call
\* it is due
Delivered(f) ==
    LET hits == SelectSeq(UpdateItems(f), LAMBDA i : RegistryKey(i) # "")
    IN [n \in 1..Len(hits) |->
          [cb |-> CallbackOf(subscriptions, RegistryKey(hits[n])),
           key |-> RegistryKey(hits[n]),
           bare |-> hits[n].kind = "bare"]]

\* C35: every update of an inbound frame invokes at most one callback, the
\* one registered at that moment under its key (the asset id before the
\* market id on the public-book venue); heartbeats, request responses and
\* unrecognized messages invoke none; the registry and the cache are not
\* changed.
C35_UpdateInvokesRegisteredCallback ==
    [][IsReceive =>
          /\ invoked' = invoked \o Delivered(hist'.ev.frame)
          /\ subscriptions' = subscriptions
          /\ cache' = cache]_vars

\* on the public-book venue k1 and k2 are registered with different
\* callbacks and an update with asset id k1 and market id k2 was dispatched
C35_Witness ==
    /\ venue = "polymarket"
    /\ hist.ev.op = "frame"
    /\ hist.ev.frame.items = <<Item("book", "k1", "k2", 0)>>
    /\ KeySet(subscriptions) = {"k1", "k2"}
    /\ CallbackOf(subscriptions, "k1") # CallbackOf(subscriptions, "k2")
    /\ invoked = <<[cb |-> CallbackOf(subscriptions, "k1"), key |-> "k1",
                    bare |-> FALSE]>>

\* C35 for the cache: a heartbeat, a request response or an unrecognized
\* message is given to no callback and leaves every cache entry as it was
C35_ControlMessageKeepsCache ==
    [][(book_hist'.left = book_hist.left - 1 /\ inbox.kind \in ControlKinds) =>
          /\ cache' = cache
          /\ ~handed'.cb.some]_vars

\* the frame holds an update that is delivered to a callback that raises
RaisingFrame(f) ==
    \E n \in 1..Len(Delivered(f)) : Delivered(f)[n].cb \in RaisingCallbacks

\* C36: an exception raised by a subscriber callback while a frame is
\* dispatched does not leave the receive loop: the connection state, the
\* socket, the registry and the attempt counter are unchanged, the loop
\* waits for the next frame of the same transport (no reconnect), and every
\* item of the frame, those after the raising call included, is dispatched.
C36_CallbackExceptionStaysInLoop ==
    [][(IsReceive /\ RaisingFrame(hist'.ev.frame)) =>
          /\ state' = state
          /\ ws' = ws
          /\ subscriptions' = subscriptions
          /\ reconnect_attempts' = reconnect_attempts
          /\ task'["rx"] = task["rx"]
          /\ task'["rx"].pc = "recv"
          /\ Len(invoked') = Len(invoked) + Len(Delivered(hist'.ev.frame))]_vars

\* an array of two updates for k1 was dispatched to k1's callback, which
\* raises: it was called for both and the loop is still reading
C36_Witness ==
    /\ hist.ev.op = "frame"
    /\ Len(hist.ev.frame.items) = 2
    /\ RaisingFrame(hist.ev.frame)
    /\ Len(invoked) = 2
    /\ invoked[1].cb \in RaisingCallbacks
    /\ invoked[2].cb \in RaisingCallbacks
    /\ state = "connected"
    /\ task["rx"].pc = "recv"

\* C37, the counter alone: reconnect_attempts stays within 0 and
\* max_reconnect_attempts
C37_CounterInRange ==
    reconnect_attempts >= 0 /\ reconnect_attempts <= MaxAttempts

\* C37: in every reachable state 0 <= reconnect_attempts <=
\* max_reconnect_attempts, and the reconnect procedure has called
\* websockets.connect at most max_reconnect_attempts times since the state
\* was last set to Connected.
C37_AttemptsWithinMax ==
    /\ reconnect_attempts >= 0
    /\ reconnect_attempts <= MaxAttempts
    /\ hist.tried <= MaxAttempts

\* the subscribe and unsubscribe frames handed to the transport in this step
NewRequests ==
    LET new == IF Len(sent') >= Len(sent) /\ SubSeq(sent', 1, Len(sent)) = sent
               THEN SubSeq(sent', Len(sent) + 1, Len(sent'))
               ELSE sent'
    IN SelectSeq(new, LAMBDA f : f.method \in {"subscribe", "unsubscribe"})

\* C38: on the heartbeat-keepalive venue the requestId counter of a
\* connection object starts at 0, never goes down and is never reset by a
\* reconnect, and every subscribe or unsubscribe frame carries the counter's
\* value after one increment; so the ids are at least 1, each is larger
\* than every id issued before it, and no two frames share one.
C38_RequestIdsIncrease ==
    [][venue = "predictfun" =>
          /\ request_id' \in {request_id, request_id + 1}
          /\ Len(NewRequests) <= 1
          /\ \A i \in 1..Len(NewRequests) :
                 /\ NewRequests[i].id = request_id + 1
                 /\ NewRequests[i].id = request_id'
          /\ \A i \in 1..Len(sent) :
                 sent[i].method \in {"subscribe", "unsubscribe"} =>
                     (sent[i].id >= 1 /\ sent[i].id <= request_id)]_vars

\* a key was watched on the first transport with id 1 and, after a
\* reconnect, its unsubscribe frame is sent on the second transport with id 2
C38_Witness ==
    /\ venue = "predictfun"
    /\ Len(transports) = 2
    /\ ws = 2
    /\ request_id = 2
    /\ Len(sent) = 1
    /\ sent[1].method = "unsubscribe"
    /\ sent[1].id = 2
====
